---------------------------- MODULE Spec2Model ----------------------------
(***************************************************************************)
(* Verification model of adv-route-backend: the corridor engine            *)
(* (src/lib/bbox.js), the corridor selection of POST /plan, the track      *)
(* selector, the routing gate (rlFetch, ghRouteCH and the pair cache) and  *)
(* the stitcher (cleanAnchors, buildStitchedRoute, buildCHOnlyRoute), all  *)
(* of src/server.js.  Each part has its own specification over the shared  *)
(* variables: SpecCorridor, SpecSelect, SpecGate, SpecLimiter, SpecStitch. *)
(*                                                                         *)
(* Numbers.  The program computes with IEEE doubles; the model computes    *)
(* with fixed-point integers that fit TLC's 32-bit arithmetic:             *)
(*   - a coordinate is an integer number of 1e-5 degrees, a point is       *)
(*     <<lon, lat>> and a box is <<south, west, north, east>>, as in the   *)
(*     code's arrays;                                                      *)
(*   - a length (distKm, padKm, D, off, len) is an integer number of       *)
(*     metres, i.e. km with three decimals;                                *)
(*   - an area (areaKm2) is an integer number of 0.01 km2;                 *)
(*   - a cosine is scaled by 10000, a scale factor or axis fraction by     *)
(*     1000.                                                               *)
(* Every division rounds down.  The haversine of distKm is evaluated in    *)
(* its small-angle form (sin x = x, asin x = x), which is within 0.1% of   *)
(* the code's value for the distances of the model (below 500 km).         *)
(***************************************************************************)
EXTENDS Integers, Sequences, FiniteSets, TLC

VARIABLES
    pc,        \* position of the modelled call: "plan" | "overpass" | "select" | "selected"
    a,         \* start point of the request  [lon, lat]
    b,         \* end point of the request    [lon, lat]
    cfg,       \* {PAD_KM_MIN, PAD_KM_MAX, BBOX_AREA_MAX_KM2} (km, km, km2)
    hint,      \* region_hint_bbox of the request, NoHint when absent
    corr,      \* result of corridorBBox(a, b, cfg)
    bbox,      \* the box handed to overpassTracks
    tracks,    \* the track candidates handed to selectTracksAlongAxis
    opts,      \* {max, maxAxisKm} of selectTracksAlongAxis (maxAxisKm in metres)
    selected,  \* result of selectTracksAlongAxis
    now,       \* Date.now(), in ms
    lastTs,    \* rlFetch's time of the last dispatch, in ms
    routeCache,\* the Map of ghRouteCH: key -> stored result
    proc,      \* per request: where its ghRouteCH call stands
    nDispatch, \* number of fetch() calls made by rlFetch so far
    lastGap,   \* ms between the last two dispatches, -1 before the second
    n429,      \* number of 429 responses the routing service has given
    vias,      \* buildStitchedRoute: the via values as given
    dynMaxTracks, \* buildStitchedRoute: argument of that name
    axisKm,    \* buildStitchedRoute: argument of that name, in metres
    anchors,   \* buildStitchedRoute: the cleaned anchors
    idx,       \* buildStitchedRoute: the loop's i, counted from 1
    last,      \* buildStitchedRoute: the anchor the next connector starts from
    segments,  \* buildStitchedRoute: the connectors built so far
    inFlight,  \* the points of the ghRouteCH call that is awaited, <<>> when none
    ghCalls,   \* the ghRouteCH calls of the invocation that are over, in order
    outcome,   \* what the invocation returned or threw
    overBudget,\* whether the time since the stitch began exceeds a time budget
    planPc,    \* POST /plan, strategy 'stitch': "overpass" | "stitch" | "chonly" | "responded"
    discovery, \* how overpassTracks ended: "none" yet | "ok" | "failed"
    planCalls, \* the ghRouteCH calls of the handler's own buildCHOnlyRoute that are over
    response   \* what the handler answered

planVars == <<pc, a, b, cfg, hint, corr, bbox, tracks, opts, selected>>

gateVars == <<now, lastTs, routeCache, proc, nDispatch, lastGap, n429>>

handlerVars == <<planPc, discovery, planCalls, response>>

stitchVars == <<vias, dynMaxTracks, axisKm, anchors, idx, last, segments, inFlight,
                ghCalls, outcome, overBudget, handlerVars>>

vars == <<planVars, gateVars, stitchVars>>

\* The routing gate before any request has used it (lines 70 and 144).
GateIdle ==
    /\ now = 0
    /\ lastTs = 0
    /\ routeCache = <<>>
    /\ proc = <<>>
    /\ nDispatch = 0
    /\ lastGap = -1
    /\ n429 = 0

\* No invocation of buildStitchedRoute.
\* The handler has called buildStitchedRoute and awaits it.
HandlerIdle ==
    /\ planPc = "stitch"
    /\ discovery = "none"
    /\ planCalls = <<>>
    /\ response = [kind |-> "none"]

StitchIdle ==
    /\ vias = <<>>
    /\ dynMaxTracks = 0
    /\ axisKm = 0
    /\ anchors = <<>>
    /\ idx = 0
    /\ last = <<>>
    /\ segments = <<>>
    /\ inFlight = <<>>
    /\ ghCalls = <<>>
    /\ outcome = [kind |-> "none"]
    /\ overBudget = FALSE
    /\ HandlerIdle

---------------------------------------------------------------------------
(* Arithmetic helpers *)

Abs(x) == IF x < 0 THEN -x ELSE x

Min2(x, y) == IF x <= y THEN x ELSE y

Max2(x, y) == IF x >= y THEN x ELSE y

\* Bisection.  mid is bound through a set, which makes it a value rather than
\* an expression that is evaluated again wherever it is used; so are the
\* operands of ISqrt, MulDiv and distKm below.
RECURSIVE SqrtIter(_, _, _)
SqrtIter(n, lo, hi) ==
    IF lo >= hi THEN lo
    ELSE CHOOSE r \in { IF mid * mid <= n THEN SqrtIter(n, mid, hi)
                                          ELSE SqrtIter(n, lo, mid - 1) :
                        mid \in {(lo + hi + 1) \div 2} } : TRUE

\* Math.sqrt on a non-negative integer, rounded down.
ISqrt(n) == CHOOSE r \in {SqrtIter(v, 0, 46340) : v \in {n}} : TRUE

\* x * m / d rounded down, for x >= 0, without leaving 32 bits.
MulDiv(x, m, d) ==
    CHOOSE r \in {(v \div d) * w + ((v % d) * w) \div d : v \in {x}, w \in {m}} : TRUE

\* sqrt(x^2 + y^2) for x, y >= 0; large operands lose their low bits first,
\* as a floating-point mantissa does.
RECURSIVE Hypot(_, _)
Hypot(x, y) ==
    IF x > 30000 \/ y > 30000
    THEN 16 * Hypot(x \div 16, y \div 16)
    ELSE ISqrt(x * x + y * y)

\* 10000 * cos(k degrees) for k = 0 .. 90 (entry k + 1).
CosTable ==
    << 10000, 9998, 9994, 9986, 9976, 9962, 9945, 9925, 9903, 9877, 9848, 9816,
       9781, 9744, 9703, 9659, 9613, 9563, 9511, 9455, 9397, 9336, 9272, 9205,
       9135, 9063, 8988, 8910, 8829, 8746, 8660, 8572, 8480, 8387, 8290, 8192,
       8090, 7986, 7880, 7771, 7660, 7547, 7431, 7314, 7193, 7071, 6947, 6820,
       6691, 6561, 6428, 6293, 6157, 6018, 5878, 5736, 5592, 5446, 5299, 5150,
       5000, 4848, 4695, 4540, 4384, 4226, 4067, 3907, 3746, 3584, 3420, 3256,
       3090, 2924, 2756, 2588, 2419, 2250, 2079, 1908, 1736, 1564, 1392, 1219,
       1045, 872, 698, 523, 349, 175, 0 >>

\* Math.cos(toRad(lat)) scaled by 10000: the table, interpolated linearly.
CosDeg(lat) ==
    LET l == Min2(Abs(lat), 9000000)
        k == l \div 100000
        f == l % 100000
    IN  IF k >= 90 THEN 0
        ELSE CosTable[k + 1] - ((CosTable[k + 1] - CosTable[k + 2]) * f) \div 100000

---------------------------------------------------------------------------
(* src/lib/bbox.js *)

\* distKm(p, q) in metres.  With x = dLat/2 and y = dLon/2 the code returns
\* 2 R asin(sqrt(sin(x)^2 + cos(lat1) cos(lat2) sin(y)^2)); R = 6371 km makes one
\* 1e-5 degree 1.112 m.
Dist(p, q) ==
    LET dLat == q[2] - p[2]
        dLon == q[1] - p[1]
        c    == ISqrt(CosDeg(p[2]) * CosDeg(q[2]))
        ex   == MulDiv(Abs(dLon), c, 10000)
    IN  MulDiv(Hypot(Abs(dLat), ex), 11120, 10000)

distKm(p, q) == CHOOSE r \in {Dist(v, w) : v \in {p}, w \in {q}} : TRUE

\* bboxAreaKm2 with the width measured along the south edge instead of the
\* middle latitude.
bboxAreaKm2_SouthEdge(box) ==
    LET width  == distKm(<<box[2], box[1]>>, <<box[4], box[1]>>)
        midLon == (box[2] + box[4]) \div 2
        height == distKm(<<midLon, box[1]>>, <<midLon, box[3]>>)
    IN  ((width \div 10) * (height \div 10)) \div 100

\* bboxAreaKm2([south, west, north, east]) in 0.01 km2.
bboxAreaKm2(box) ==
    LET south  == box[1]
        west   == box[2]
        north  == box[3]
        east   == box[4]
        midLat == (south + north) \div 2
        midLon == (west + east) \div 2
        width  == distKm(<<west, midLat>>, <<east, midLat>>)
        height == distKm(<<midLon, south>>, <<midLon, north>>)
    IN  ((width \div 10) * (height \div 10)) \div 100

\* InitialPad without the outer Math.max(PAD_KM_MIN, ...).
InitialPad_NoLowerClamp(p, q, c) ==
    Min2(c.PAD_KM_MAX * 1000, Max2(8000, distKm(p, q) \div 4))

\* The pad of corridorBBox before the area check (padKm of line 26), in metres.
InitialPad(p, q, c) ==
    LET D == distKm(p, q)
    IN  Max2(c.PAD_KM_MIN * 1000,
             Min2(c.PAD_KM_MAX * 1000, Max2(8000, D \div 4)))

\* The box of lines 28-35 (and 41-43): the endpoints' min/max -/+ the pad,
\* padKm / 111 degrees of latitude and padKm / (111 cos(midLat) || 1) of longitude.
PadBox(p, q, padKm) ==
    LET minLat == Min2(p[2], q[2])
        maxLat == Max2(p[2], q[2])
        minLon == Min2(p[1], q[1])
        maxLon == Max2(p[1], q[1])
        latPad == (padKm * 100) \div 111
        midLat == (p[2] + q[2]) \div 2
        den    == 111 * CosDeg(midLat)
        lonPad == IF den = 0 THEN padKm * 100
                  ELSE ((padKm * 10000) \div den) * 100
                       + (((padKm * 10000) % den) * 100) \div den
    IN  <<minLat - latPad, minLon - lonPad, maxLat + latPad, maxLon + lonPad>>

\* padKm *= Math.sqrt(BBOX_AREA_MAX_KM2 / areaKm2)  (lines 39-40)
ScalePad(padKm, maxKm2, areaKm2) ==
    LET scale == ISqrt(((maxKm2 * 100000) \div areaKm2) * 1000)
    IN  (padKm * scale) \div 1000

\* The area of the first box (lines 28-36), before the area check.
Area0(p, q, c) == bboxAreaKm2(PadBox(p, q, InitialPad(p, q, c)))

\* corridorBBox that keeps the area of the first box after shrinking.
corridorBBox_StaleArea(p, q, c) ==
    LET pad0  == InitialPad(p, q, c)
        area0 == bboxAreaKm2(PadBox(p, q, pad0))
    IN  IF area0 > c.BBOX_AREA_MAX_KM2 * 100
        THEN LET pad1 == ScalePad(pad0, c.BBOX_AREA_MAX_KM2, area0)
             IN  [bbox |-> PadBox(p, q, pad1), padKm |-> pad1, areaKm2 |-> area0,
                  shrunk |-> TRUE, D |-> distKm(p, q)]
        ELSE [bbox |-> PadBox(p, q, pad0), padKm |-> pad0, areaKm2 |-> area0,
              shrunk |-> FALSE, D |-> distKm(p, q)]

corridorBBox(p, q, c) ==
    LET D     == distKm(p, q)
        pad0  == InitialPad(p, q, c)
        box0  == PadBox(p, q, pad0)
        area0 == bboxAreaKm2(box0)
    IN  IF area0 > c.BBOX_AREA_MAX_KM2 * 100
        THEN LET pad1 == ScalePad(pad0, c.BBOX_AREA_MAX_KM2, area0)
                 box1 == PadBox(p, q, pad1)
             IN  [bbox |-> box1, padKm |-> pad1, areaKm2 |-> bboxAreaKm2(box1),
                  shrunk |-> TRUE, D |-> D]
        ELSE [bbox |-> box0, padKm |-> pad0, areaKm2 |-> area0,
              shrunk |-> FALSE, D |-> D]

---------------------------------------------------------------------------
(* Inputs of the corridor model *)

\* Points per axis of the endpoint grid, minus one.
GridN == 2

\* Endpoints: a grid of 0.2 degree steps south-west of Lisbon (lon -9.2, lat 38.4).
Points == { <<-920000 + 20000 * i, 3840000 + 20000 * j>> : i, j \in 0 .. GridN }

Cfg(mn, mx, ar) == [PAD_KM_MIN |-> mn, PAD_KM_MAX |-> mx, BBOX_AREA_MAX_KM2 |-> ar]

\* Configurations: the defaults, a minimum below 8, a narrow range, no padding,
\* a small area limit, and a minimum above the maximum.
Configs == { Cfg(8, 25, 2500), Cfg(2, 25, 2500), Cfg(10, 12, 2500),
             Cfg(0, 0, 1000), Cfg(8, 25, 1000), Cfg(12, 10, 2500) }

NoHint == <<>>

\* region_hint_bbox values: a small box around the first grid point, a small box
\* far from every endpoint, a box of no height, a box with south and north
\* swapped, and a box of 3 by 2 degrees.
Hints == { <<3839000, -921000, 3841000, -919000>>,
           <<100000, 100000, 101000, 101000>>,
           <<3840000, -920000, 3840000, -900000>>,
           <<3850000, -900000, 3840000, -920000>>,
           <<3700000, -1000000, 4000000, -800000>> }

NoCorr == [bbox |-> <<>>, padKm |-> 0, areaKm2 |-> 0, shrunk |-> FALSE, D |-> 0]

---------------------------------------------------------------------------
(* POST /plan, lines 424-435: the corridor and the box used for discovery *)

\* The test of line 429.
HintAccepted(h, c, cr) ==
    /\ h # NoHint
    /\ bboxAreaKm2(h) <= cr.areaKm2
    /\ bboxAreaKm2(h) <= c.BBOX_AREA_MAX_KM2 * 100

PlanBBox(h, c, cr) == IF HintAccepted(h, c, cr) THEN h ELSE cr.bbox

PlanCorridor ==
    /\ pc = "plan"
    /\ corr' = corridorBBox(a, b, cfg)
    /\ bbox' = PlanBBox(hint, cfg, corr')
    /\ pc' = "overpass"
    /\ UNCHANGED <<a, b, cfg, hint, tracks, opts, selected>>
    /\ UNCHANGED gateVars
    /\ UNCHANGED stitchVars

InitCorridor ==
    /\ pc = "plan"
    /\ a \in Points
    /\ b \in Points
    /\ cfg \in Configs
    /\ hint \in Hints \cup {NoHint}
    /\ corr = NoCorr
    /\ bbox = <<>>
    /\ tracks = <<>>
    /\ opts = [max |-> 0, maxAxisKm |-> 0]
    /\ selected = <<>>
    /\ GateIdle
    /\ StitchIdle

NextCorridor == PlanCorridor

SpecCorridor == InitCorridor /\ [][NextCorridor]_vars

---------------------------------------------------------------------------
(* src/server.js, STITCH helpers (lines 793-818) *)

\* polylineLenKm(coords), in metres.
RECURSIVE polylineLenKm(_)
polylineLenKm(coords) ==
    IF Len(coords) < 2 THEN 0
    ELSE polylineLenKm(SubSeq(coords, 1, Len(coords) - 1))
         + distKm(coords[Len(coords) - 1], coords[Len(coords)])

\* lerp(p, q, t) with t in thousandths.
lerp(p, q, t) ==
    << p[1] + ((q[1] - p[1]) * t) \div 1000, p[2] + ((q[2] - p[2]) * t) \div 1000 >>

\* dot / vv in thousandths for 0 < dot < vv, within 32 bits.
Ratio(dot, vv) ==
    LET k == vv \div 1000000 + 1
    IN  ((dot \div k) * 1000) \div (vv \div k)

\* project01(p, s, e): the scalar projection of p on the segment s-e, clamped
\* to [0, 1], in thousandths.  vv = 0 is replaced by 1e-9 in the code; the
\* numerator is then 0 and so is t.
project01(p, s, e) ==
    LET vx  == e[1] - s[1]
        vy  == e[2] - s[2]
        wx  == p[1] - s[1]
        wy  == p[2] - s[2]
        vv  == vx * vx + vy * vy
        dot == vx * wx + vy * wy
        t   == IF vv = 0 THEN 0
               ELSE IF dot <= 0 THEN (IF dot = 0 THEN 0 ELSE -1)
               ELSE IF dot >= vv THEN (IF dot = vv THEN 1000 ELSE 1001)
               ELSE Ratio(dot, vv)
    IN  Max2(0, Min2(1000, t))

\* w.coords[Math.floor(w.coords.length / 2)]
MidPoint(coords) == coords[(Len(coords) \div 2) + 1]

\* The record built for one way (lines 802-808).
Score(w, s, e) ==
    LET mid == MidPoint(w.coords)
        t   == project01(mid, s, e)
    IN  [id |-> w.id, coords |-> w.coords, t |-> t,
         off |-> distKm(mid, lerp(s, e, t)), len |-> polylineLenKm(w.coords)]

\* The axis filter with the test left out.
WithinAxis_Always(x, maxAxisKm) == TRUE

\* .filter(x => x.off <= maxAxisKm)
WithinAxis(x, maxAxisKm) == x.off <= maxAxisKm

\* tracks.map(...).filter(Boolean).filter(x => x.off <= maxAxisKm), in order.
RECURSIVE Scored(_, _, _, _)
Scored(ws, s, e, maxAxisKm) ==
    IF ws = <<>> THEN <<>>
    ELSE LET w    == ws[Len(ws)]
             rest == Scored(SubSeq(ws, 1, Len(ws) - 1), s, e, maxAxisKm)
         IN  IF Len(w.coords) = 0 THEN rest
             ELSE IF WithinAxis(Score(w, s, e), maxAxisKm)
                  THEN Append(rest, Score(w, s, e))
                  ELSE rest

\* x put before the elements of its own length: a sort that is not stable.
InsertByLen_First(xs, x) ==
    LET k == Cardinality({i \in 1 .. Len(xs) : xs[i].len > x.len})
    IN  SubSeq(xs, 1, k) \o <<x>> \o SubSeq(xs, k + 1, Len(xs))

\* x put into xs, which is sorted by descending len, behind every element that
\* is at least as long (Array.prototype.sort is stable).
InsertByLen(xs, x) ==
    LET k == Cardinality({i \in 1 .. Len(xs) : xs[i].len >= x.len})
    IN  SubSeq(xs, 1, k) \o <<x>> \o SubSeq(xs, k + 1, Len(xs))

\* scored.sort((a, b) => b.len - a.len)
RECURSIVE SortByLenDesc(_)
SortByLenDesc(xs) ==
    IF xs = <<>> THEN <<>>
    ELSE InsertByLen(SortByLenDesc(SubSeq(xs, 1, Len(xs) - 1)), xs[Len(xs)])

InsertByT(xs, x) ==
    LET k == Cardinality({i \in 1 .. Len(xs) : xs[i].t <= x.t})
    IN  SubSeq(xs, 1, k) \o <<x>> \o SubSeq(xs, k + 1, Len(xs))

\* The final sort left out.
SortByT_Unsorted(xs) == xs

\* out.sort((a, b) => a.t - b.t)
RECURSIVE SortByT(_)
SortByT(xs) ==
    IF xs = <<>> THEN <<>>
    ELSE InsertByT(SortByT(SubSeq(xs, 1, Len(xs) - 1)), xs[Len(xs)])

\* The spacing test left out.
TooNear_Never(o, cand) == FALSE

\* Line 812: Math.abs(o.t - cand.t) < minGap, with minGap = 0.1.
TooNear(o, cand) == Abs(o.t - cand.t) < 100

\* The loop of lines 811-816 from candidate i on.
RECURSIVE KeepSpaced(_, _, _, _)
KeepSpaced(cands, i, out, max) ==
    IF i > Len(cands) THEN out
    ELSE IF \E j \in 1 .. Len(out) : TooNear(out[j], cands[i])
         THEN KeepSpaced(cands, i + 1, out, max)
         ELSE LET out2 == Append(out, cands[i])
              IN  IF Len(out2) >= max THEN out2
                  ELSE KeepSpaced(cands, i + 1, out2, max)

selectTracksAlongAxis(ws, s, e, o) ==
    SortByT(KeepSpaced(SortByLenDesc(Scored(ws, s, e, o.maxAxisKm)), 1, <<>>, o.max))

---------------------------------------------------------------------------
(* Inputs of the track selector model *)

\* Longest list of discovered ways.
MaxTracks == 3

SelStart == <<-920000, 3840000>>

\* End points: north-east of the start (about 21 km), the start itself, and north
\* of the start (about 22 km).
SelEnds == { <<-900000, 3850000>>, SelStart, <<-920000, 3860000>> }

At(dx, dy) == <<SelStart[1] + dx, SelStart[2] + dy>>

\* Discovered ways, placed relative to the north-east axis: near the start; long,
\* mid-axis; short, mid-axis; a single point 14 km off the axis; a way without
\* geometry; near the end; 6 km off the axis; as long as the short mid-axis way
\* and 170 m east of it.
Pool ==
    { [id |-> "w1", coords |-> <<At(1000, 500), At(2000, 1200)>>],
      [id |-> "w2", coords |-> <<At(8000, 4000), At(10000, 5500), At(12000, 6000)>>],
      [id |-> "w3", coords |-> <<At(10500, 5000), At(11000, 5500)>>],
      [id |-> "w4", coords |-> <<At(5000, 15000)>>],
      [id |-> "w5", coords |-> <<>>],
      [id |-> "w6", coords |-> <<At(19000, 9000), At(19500, 9800), At(19800, 10100)>>],
      [id |-> "w7", coords |-> <<At(6000, 9000), At(6500, 9300)>>],
      [id |-> "w8", coords |-> <<At(10700, 5000), At(11200, 5500)>>] }

\* The lists of at most MaxTracks distinct ways.
TrackLists ==
    UNION { { f \in [1 .. n -> Pool] : \A i, j \in 1 .. n : i # j => f[i] # f[j] }
            : n \in 0 .. MaxTracks }

SelectOpts == [max : {0, 1, 2, 6}, maxAxisKm : {4000, 8000}]

---------------------------------------------------------------------------
(* The track selector applied to one discovery result *)

Select ==
    /\ pc = "select"
    /\ selected' = selectTracksAlongAxis(tracks, a, b, opts)
    /\ pc' = "selected"
    /\ UNCHANGED <<a, b, cfg, hint, corr, bbox, tracks, opts>>
    /\ UNCHANGED gateVars
    /\ UNCHANGED stitchVars

InitSelect ==
    /\ pc = "select"
    /\ a = SelStart
    /\ b \in SelEnds
    /\ tracks \in TrackLists
    /\ opts \in SelectOpts
    /\ cfg = Cfg(8, 25, 2500)
    /\ hint = NoHint
    /\ corr = NoCorr
    /\ bbox = <<>>
    /\ selected = <<>>
    /\ GateIdle
    /\ StitchIdle

NextSelect == Select

SpecSelect == InitSelect /\ [][NextSelect]_vars

---------------------------------------------------------------------------
(* Claims about the corridor (checked under SpecCorridor) *)

CorridorDone == pc = "overpass"

MinM == cfg.PAD_KM_MIN * 1000

MaxM == cfg.PAD_KM_MAX * 1000

AreaMax == cfg.BBOX_AREA_MAX_KM2 * 100

\* C1: the area returned by corridorBBox never exceeds BBOX_AREA_MAX_KM2, also
\* after the single rescale of the pad.
C1_AreaWithinLimit == CorridorDone => corr.areaKm2 <= AreaMax

\* C2: with PAD_KM_MIN <= PAD_KM_MAX the returned padKm lies in
\* [PAD_KM_MIN, PAD_KM_MAX] whenever shrunk = false, and a padKm below
\* PAD_KM_MIN comes only with shrunk = true.
C2_PadWithinRange ==
    (CorridorDone /\ cfg.PAD_KM_MIN <= cfg.PAD_KM_MAX) =>
        /\ ~corr.shrunk => (MinM <= corr.padKm /\ corr.padKm <= MaxM)
        /\ corr.padKm < MinM => corr.shrunk

\* C2 witness: an unshrunk corridor whose pad is D / 4, strictly inside the range.
C2_Witness ==
    /\ CorridorDone
    /\ cfg.PAD_KM_MIN <= cfg.PAD_KM_MAX
    /\ ~corr.shrunk
    /\ MinM < corr.padKm
    /\ corr.padKm < MaxM

\* What C3 says of a shrunk result, but for the comparison of the pads.
ShrunkResult ==
    /\ corr.padKm = ScalePad(InitialPad(a, b, cfg), cfg.BBOX_AREA_MAX_KM2, Area0(a, b, cfg))
    /\ corr.bbox = PadBox(a, b, corr.padKm)
    /\ corr.areaKm2 = bboxAreaKm2(corr.bbox)

\* C3 as stated: shrunk = true exactly when the area of the box built with the
\* initial pad exceeds BBOX_AREA_MAX_KM2; the pad is then multiplied once by
\* sqrt(BBOX_AREA_MAX_KM2 / area), is strictly smaller than the initial pad, and
\* bbox and areaKm2 are recomputed from it.
C3_Original ==
    CorridorDone =>
        /\ corr.shrunk <=> (Area0(a, b, cfg) > AreaMax)
        /\ corr.shrunk => (ShrunkResult /\ corr.padKm < InitialPad(a, b, cfg))

\* C3 amended: as C3, with the returned pad strictly smaller than the initial
\* pad when the initial pad is positive, and equal to it (0) when it is 0.
C3_ShrinkOnce ==
    CorridorDone =>
        /\ corr.shrunk <=> (Area0(a, b, cfg) > AreaMax)
        /\ corr.shrunk =>
              /\ ShrunkResult
              /\ InitialPad(a, b, cfg) > 0 => corr.padKm < InitialPad(a, b, cfg)
              /\ InitialPad(a, b, cfg) = 0 => corr.padKm = 0

\* C3 witness: a shrunk corridor with a positive initial pad.
C3_Witness ==
    /\ CorridorDone
    /\ corr.shrunk
    /\ InitialPad(a, b, cfg) > 0
    /\ corr.padKm < InitialPad(a, b, cfg)

Clamp(x, lo, hi) == Max2(lo, Min2(hi, x))

\* C4: the initial pad is clamp(max(PAD_KM_MIN, D * 0.25), PAD_KM_MIN, PAD_KM_MAX)
\* for every configuration; identical endpoints give PAD_KM_MIN.
C4_InitialPadIsClamp ==
    CorridorDone =>
        /\ InitialPad(a, b, cfg) = Clamp(Max2(MinM, corr.D \div 4), MinM, MaxM)
        /\ a = b => InitialPad(a, b, cfg) = MinM

Contains(box, p) ==
    /\ box[1] <= p[2] /\ p[2] <= box[3]
    /\ box[2] <= p[1] /\ p[1] <= box[4]

\* C5: the box used for track discovery has south < north and west < east and
\* contains both endpoints, whether computed or an accepted region_hint_bbox.
C5_DiscoveryBoxValid ==
    CorridorDone =>
        /\ bbox[1] < bbox[3]
        /\ bbox[2] < bbox[4]
        /\ Contains(bbox, a)
        /\ Contains(bbox, b)

\* C6: the region_hint_bbox is used if and only if its area is at most the
\* computed corridor's and at most BBOX_AREA_MAX_KM2, otherwise the computed box
\* is used; so the box sent to discovery never exceeds the area limit.
C6_HintRuleAndLimit ==
    CorridorDone =>
        /\ IF /\ hint # NoHint
              /\ bboxAreaKm2(hint) <= corr.areaKm2
              /\ bboxAreaKm2(hint) <= AreaMax
           THEN bbox = hint
           ELSE bbox = corr.bbox
        /\ bboxAreaKm2(bbox) <= AreaMax

\* C7: bboxAreaKm2 is the same with south and north swapped and with west and
\* east swapped.
C7_AreaSymmetric ==
    CorridorDone =>
        /\ bboxAreaKm2(<<bbox[3], bbox[2], bbox[1], bbox[4]>>) = bboxAreaKm2(bbox)
        /\ bboxAreaKm2(<<bbox[1], bbox[4], bbox[3], bbox[2]>>) = bboxAreaKm2(bbox)
        /\ bboxAreaKm2(<<bbox[3], bbox[4], bbox[1], bbox[2]>>) = bboxAreaKm2(bbox)

\* C7 witness: a box of positive area whose south and north latitudes differ.
C7_Witness ==
    /\ CorridorDone
    /\ bbox[1] # bbox[3]
    /\ bbox[2] # bbox[4]
    /\ bboxAreaKm2(bbox) > 0

---------------------------------------------------------------------------
(* Claims about the track selector (checked under SpecSelect) *)

SelectDone == pc = "selected"

\* The lateral offset of a way: from its middle point to that point's clamped
\* projection on the axis a-b.
LateralOffset(coords) == distKm(MidPoint(coords), lerp(a, b, project01(MidPoint(coords), a, b)))

\* C8: the track selector never returns more than max candidates, for every
\* max >= 0.
C8_AtMostMax == SelectDone => Len(selected) <= opts.max

\* C9: every returned candidate is within maxAxisKm of the axis, and no
\* candidate without coordinates is returned.
C9_WithinAxis ==
    SelectDone =>
        \A i \in 1 .. Len(selected) :
            /\ Len(selected[i].coords) > 0
            /\ selected[i].off = LateralOffset(selected[i].coords)
            /\ selected[i].off <= opts.maxAxisKm

\* C9 witness: a way without coordinates and a way beyond maxAxisKm were
\* discovered and something was returned.
C9_Witness ==
    /\ SelectDone
    /\ Len(selected) >= 1
    /\ \E i \in 1 .. Len(tracks) : Len(tracks[i].coords) = 0
    /\ \E i \in 1 .. Len(tracks) :
          /\ Len(tracks[i].coords) > 0
          /\ LateralOffset(tracks[i].coords) > opts.maxAxisKm

\* C10: the returned list is ordered by non-decreasing axis fraction, and every
\* axis fraction is in [0, 1].
C10_OrderedByT ==
    SelectDone =>
        /\ \A i \in 1 .. Len(selected) : 0 <= selected[i].t /\ selected[i].t <= 1000
        /\ \A i \in 1 .. Len(selected) - 1 : selected[i].t <= selected[i + 1].t

\* C10 witness: two candidates returned, the shorter one first: the order of
\* acceptance (longest first) was changed by the final sort.
C10_Witness ==
    /\ SelectDone
    /\ Len(selected) >= 2
    /\ \E i \in 1 .. Len(selected) - 1 :
          /\ selected[i].t < selected[i + 1].t
          /\ selected[i].len < selected[i + 1].len

---------------------------------------------------------------------------
(* The routing gate: rlFetch (lines 55-85) and ghRouteCH (lines 142-144,   *)
(* 204-243).  Times are in ms.  The points handed to ghRouteCH carry one   *)
(* decimal more than elsewhere (1e-6 degrees), so that the rounding of the *)
(* cache key to five decimals has something to round.                      *)

GH_MAX_RPS == 2

GH_MIN_GAP_MS == Max2(50, 1000 \div GH_MAX_RPS)

GH_JITTER_MS == 60

\* Math.floor(Math.random() * GH_JITTER_MS): the smallest and the largest value.
Jitters == {0, GH_JITTER_MS - 1}

\* retry-after of a 429 response, in seconds; NoHeader when the header is absent.
NoHeader == -1

RetryAfters == {NoHeader, 0, 2}

\* Lines 79-80: the sleep after a 429 response.
Backoff(ra) ==
    LET waitMs == IF ra # NoHeader THEN Max2(0, ra * 1000) ELSE 1200
    IN  Max2(waitMs, 800)

\* x.toFixed(5) of a coordinate given in 1e-6 degrees: the sign that is printed
\* and the digits, rounded to the nearest 1e-5.
toFixed5(x) == [neg |-> x < 0, mag |-> (Abs(x) + 5) \div 10]

NoKey == <<>>

\* Lines 206-211.
CacheKeyOf(points) ==
    IF Len(points) = 2
    THEN <<toFixed5(points[1][1]), toFixed5(points[1][2]),
           toFixed5(points[2][1]), toFixed5(points[2][2])>>
    ELSE NoKey

\* ghRouteCH without the cache lookup.
CacheHit_Never(cache, key) == FALSE

\* Line 212.
CacheHit(cache, key) == key # NoKey /\ key \in DOMAIN cache

\* r.ok of a response.
IsOk(status) == 200 <= status /\ status <= 299

\* rlFetch without the retry: a 429 is returned like any other response.
ShouldRetry_Never(status) == FALSE

\* rlFetch retrying after every response that is not ok.
ShouldRetry_AnyFailure(status) == ~IsOk(status)

\* Line 78.
ShouldRetry(status) == status = 429

\* Lines 227-238: what the thrown error carries: the status and the text after
\* the colon ("" when the body is empty or cannot be read).
ErrorOf(resp) ==
    [kind |-> "err", status |-> resp.status,
     detail |-> IF resp.body.kind = "json" /\ resp.body.message # ""
                THEN resp.body.message
                ELSE IF resp.body.kind \in {"json", "text"} THEN resp.body.text
                ELSE ""]

\* The cache keyed by the points as given, not rounded.
CacheSet_RawKey(cache, key, j) ==
    IF key # NoKey
    THEN [k \in DOMAIN cache \cup {j.route} |-> IF k = j.route THEN j ELSE cache[k]]
    ELSE cache

\* Line 241.
CacheSet(cache, key, j) ==
    IF key # NoKey
    THEN [k \in DOMAIN cache \cup {key} |-> IF k = key THEN j ELSE cache[k]]
    ELSE cache

---------------------------------------------------------------------------
(* Inputs of the gate model *)

\* Requests in flight at the same time.
Procs == {"r1", "r2"}

\* 429 responses the routing service gives in one run.
Max429 == 2

\* The clock stops here.
MaxNow == 3000

PA == <<-9200000, 38400000>>

\* Differs from PA in the sixth decimal only.
PA2 == <<-9200004, 38400003>>

PB == <<-9100000, 38500000>>

PC == <<-9150000, 38450000>>

\* Calls of the cache model: two spellings of one pair, the pair reversed, and
\* a call with three points.
GateCalls == { <<PA, PB>>, <<PA2, PB>>, <<PB, PA>>, <<PA, PC, PB>> }

\* Calls of the pacing model: two different calls that the cache never serves.
LimiterCalls == { <<PA, PC, PB>>, <<PB, PC, PA>> }

\* Bodies of the responses: empty, unreadable, JSON with and without a message,
\* plain text.
Bodies == { [kind |-> "empty"], [kind |-> "unreadable"],
            [kind |-> "json", message |-> "quota", text |-> "{m:quota}"],
            [kind |-> "json", message |-> "", text |-> "{}"],
            [kind |-> "text", text |-> "Bad Gateway"] }

Resp(status, body) ==
    [kind |-> "resp", status |-> status, body |-> body, retryAfter |-> NoHeader]

Resp429(ra) ==
    [kind |-> "resp", status |-> 429, body |-> [kind |-> "empty"], retryAfter |-> ra]

\* Responses of the cache model: a route, a 500 with each body, a 400 with a
\* message, a 429 without retry-after.
Responses == {Resp(200, [kind |-> "route"])}
             \cup { Resp(500, body) : body \in Bodies }
             \cup {Resp(400, [kind |-> "json", message |-> "quota", text |-> "{m:quota}"])}
             \cup {Resp429(NoHeader)}

\* Responses of the pacing model: a route, an error, a 429 with each retry-after.
LimiterResponses == {Resp(200, [kind |-> "route"]), Resp(500, [kind |-> "empty"])}
                    \cup { Resp429(ra) : ra \in RetryAfters }

NoResp == [kind |-> "none"]

NoOut == [kind |-> "none"]

IdleProc == [pc |-> "idle", call |-> <<>>, wakeAt |-> 0, resp |-> NoResp,
             out |-> NoOut, sent |-> <<>>, got429 |-> 0]

\* The GH JSON of a successful response: the route of the requested points.
RouteOf(points) == [route |-> points]

---------------------------------------------------------------------------
(* rlFetch and ghRouteCH, one action per stretch of code between two awaits *)

\* Line 77: lastTs = Date.now(); fetch(url, opts).
Dispatch(p, rec) ==
    /\ lastTs' = now
    /\ nDispatch' = nDispatch + 1
    /\ lastGap' = IF nDispatch = 0 THEN -1 ELSE now - lastTs
    /\ proc' = [proc EXCEPT ![p] = [rec EXCEPT !.pc = "fetching",
                                               !.sent = Append(rec.sent, rec.call)]]

\* Lines 72-77: the wait is computed from the lastTs read on entry; with a wait
\* of 0 the request is dispatched at once.
EnterRlFetch(p, rec, jit) ==
    LET wait == Max2(0, lastTs + GH_MIN_GAP_MS - now) + jit
    IN  IF wait = 0
        THEN Dispatch(p, rec)
        ELSE /\ proc' = [proc EXCEPT ![p] = [rec EXCEPT !.pc = "sleeping",
                                                        !.wakeAt = now + wait]]
             /\ UNCHANGED <<lastTs, nDispatch, lastGap>>

\* ghRouteCH up to its first await (lines 204-220, 72-77).
Invoke(p, points, jit) ==
    /\ proc[p].pc = "idle"
    /\ LET key == CacheKeyOf(points)
           rec == [proc[p] EXCEPT !.call = points]
       IN  IF CacheHit(routeCache, key)
           THEN /\ proc' = [proc EXCEPT ![p] =
                               [rec EXCEPT !.pc = "done",
                                           !.out = [kind |-> "ok", j |-> routeCache[key],
                                                    src |-> "cache"]]]
                /\ UNCHANGED <<lastTs, nDispatch, lastGap>>
           ELSE EnterRlFetch(p, rec, jit)
    /\ UNCHANGED <<now, routeCache, n429>>
    /\ UNCHANGED planVars
    /\ UNCHANGED stitchVars

\* The timer of line 75 fires: lines 76-77.
Wake(p) ==
    /\ proc[p].pc = "sleeping"
    /\ now >= proc[p].wakeAt
    /\ Dispatch(p, proc[p])
    /\ UNCHANGED <<now, routeCache, n429>>
    /\ UNCHANGED planVars
    /\ UNCHANGED stitchVars

\* The timer of line 81 fires: line 82 calls rlFetch again with the same
\* arguments.
Retry(p, jit) ==
    /\ proc[p].pc = "backoff"
    /\ now >= proc[p].wakeAt
    /\ EnterRlFetch(p, proc[p], jit)
    /\ UNCHANGED <<now, routeCache, n429>>
    /\ UNCHANGED planVars
    /\ UNCHANGED stitchVars

\* The routing service answers.  On a 429 rlFetch sleeps (lines 78-81); any
\* other response goes back to ghRouteCH (line 84), which throws (lines
\* 227-238) or stores and returns (lines 240-242).
Respond(p, r) ==
    /\ proc[p].pc = "fetching"
    /\ r.status = 429 => n429 < Max429
    /\ n429' = IF r.status = 429 THEN n429 + 1 ELSE n429
    /\ IF ShouldRetry(r.status)
       THEN /\ proc' = [proc EXCEPT ![p].pc = "backoff", ![p].resp = r,
                                    ![p].wakeAt = now + Backoff(r.retryAfter),
                                    ![p].got429 = @ + 1]
            /\ routeCache' = routeCache
       ELSE IF IsOk(r.status)
       THEN /\ routeCache' = CacheSet(routeCache, CacheKeyOf(proc[p].call),
                                      RouteOf(proc[p].call))
            /\ proc' = [proc EXCEPT ![p].pc = "done", ![p].resp = r,
                           ![p].out = [kind |-> "ok", j |-> RouteOf(proc[p].call),
                                       src |-> "net"]]
       ELSE /\ routeCache' = routeCache
            /\ proc' = [proc EXCEPT ![p].pc = "done", ![p].resp = r,
                                    ![p].out = ErrorOf(r)]
    /\ UNCHANGED <<now, lastTs, nDispatch, lastGap>>
    /\ UNCHANGED planVars
    /\ UNCHANGED stitchVars

Timers == { proc[p].wakeAt : p \in { q \in Procs : /\ proc[q].pc \in {"sleeping", "backoff"}
                                                    /\ proc[q].wakeAt > now } }

\* Time passes: up to the next timer, or, when no timer is pending and the gap
\* since the last dispatch is still open, up to the end of that gap.
Advance ==
    /\ Timers # {} \/ now < lastTs + GH_MIN_GAP_MS
    /\ now' = IF Timers # {}
              THEN CHOOSE t \in Timers : \A u \in Timers : t <= u
              ELSE lastTs + GH_MIN_GAP_MS
    /\ now' <= MaxNow
    /\ UNCHANGED <<lastTs, routeCache, proc, nDispatch, lastGap, n429>>
    /\ UNCHANGED planVars
    /\ UNCHANGED stitchVars

PlanIdle ==
    /\ pc = "gate"
    /\ a = SelStart
    /\ b = SelStart
    /\ cfg = Cfg(8, 25, 2500)
    /\ hint = NoHint
    /\ corr = NoCorr
    /\ bbox = <<>>
    /\ tracks = <<>>
    /\ opts = [max |-> 0, maxAxisKm |-> 0]
    /\ selected = <<>>

\* The process has been up for a while when the first request arrives.
InitGate ==
    /\ PlanIdle
    /\ StitchIdle
    /\ now = 2 * GH_MIN_GAP_MS
    /\ lastTs = 0
    /\ routeCache = <<>>
    /\ proc = [p \in Procs |-> IdleProc]
    /\ nDispatch = 0
    /\ lastGap = -1
    /\ n429 = 0

\* The cache model: every call and response, with the jitter at 0.
NextGate ==
    \/ \E p \in Procs, points \in GateCalls : Invoke(p, points, 0)
    \/ \E p \in Procs : Wake(p)
    \/ \E p \in Procs : Retry(p, 0)
    \/ \E p \in Procs, r \in Responses : Respond(p, r)
    \/ Advance

SpecGate == InitGate /\ [][NextGate]_vars

\* The pacing model: every jitter and retry-after value.
NextLimiter ==
    \/ \E p \in Procs, points \in LimiterCalls, jit \in Jitters : Invoke(p, points, jit)
    \/ \E p \in Procs : Wake(p)
    \/ \E p \in Procs, jit \in Jitters : Retry(p, jit)
    \/ \E p \in Procs, r \in LimiterResponses : Respond(p, r)
    \/ Advance

SpecLimiter == InitGate /\ [][NextLimiter]_vars

---------------------------------------------------------------------------
(* Claims about rlFetch (checked under SpecLimiter) *)

\* C12: any two consecutive dispatches made through rlFetch are at least
\* GH_MIN_GAP_MS apart, also with concurrent requests and with retries after 429.
C12_MinGap == lastGap = -1 \/ lastGap >= GH_MIN_GAP_MS

\* A call of rlFetch has returned to ghRouteCH.
Returned(p) == proc[p].pc = "done" /\ proc[p].resp # NoResp

\* C13: rlFetch never returns a 429 response; after each 429 it sleeps and
\* sends the same call again, however many 429 responses there are: every
\* dispatch of a call carries the call's own arguments, a call that is waiting
\* after a 429 has been sent once per 429 received, and a call that is in
\* flight or has returned once more.
C13_RetryOn429 ==
    \A p \in Procs :
        /\ Returned(p) => proc[p].resp.status # 429
        /\ \A i \in DOMAIN proc[p].sent : proc[p].sent[i] = proc[p].call
        /\ proc[p].pc = "backoff" =>
               /\ proc[p].resp.status = 429
               /\ Len(proc[p].sent) = proc[p].got429
        /\ (proc[p].pc = "fetching" \/ Returned(p)) =>
               Len(proc[p].sent) = proc[p].got429 + 1

\* C13 witness: a call has returned after two 429 responses.
C13_Witness == \E p \in Procs : Returned(p) /\ proc[p].got429 = 2

---------------------------------------------------------------------------
(* Claims about ghRouteCH and the pair cache (checked under SpecGate) *)

\* The message of the upstream response: the message of a JSON body, else the
\* text of the body.
UpstreamMessage(r) ==
    IF r.body.kind = "json" /\ r.body.message # "" THEN r.body.message
    ELSE IF r.body.kind \in {"json", "text"} THEN r.body.text
    ELSE ""

\* The response that ends the fetch of p in this step is r.
Answers(p, r) == proc[p].pc = "fetching" /\ proc'[p].pc # "fetching" /\ proc'[p].resp = r

\* C14: a response that is neither a success nor a 429 makes the call fail with
\* an error that carries the upstream status and message; the call is not
\* retried and nothing is written to the cache.
C14_FailureIsReported ==
    [][\A p \in Procs : \A r \in Responses :
          (Answers(p, r) /\ ~IsOk(r.status) /\ r.status # 429) =>
              /\ proc'[p].pc = "done"
              /\ proc'[p].out.kind = "err"
              /\ proc'[p].out.status = r.status
              /\ proc'[p].out.detail = UpstreamMessage(r)
              /\ routeCache' = routeCache]_vars

\* C14 witness: a call has failed with the message of a 400 response, after a
\* single dispatch.
C14_Witness ==
    \E p \in Procs :
        /\ proc[p].pc = "done"
        /\ proc[p].out = [kind |-> "err", status |-> 400, detail |-> "quota"]
        /\ Len(proc[p].sent) = 1

\* The call that p makes in this step.
Calls(p) == proc[p].pc = "idle" /\ proc'[p].pc # "idle"

\* C15: once a two-point call has succeeded, a later two-point call with the
\* same key returns the stored result without a dispatch and without touching
\* lastTs; a call with another number of points neither reads nor writes the
\* cache; no entry is ever removed.
C15_CacheServes ==
    [][/\ \A p \in Procs :
            LET points == proc'[p].call
                key    == CacheKeyOf(points)
            IN  /\ (Calls(p) /\ Len(points) = 2 /\ key \in DOMAIN routeCache) =>
                       /\ proc'[p].pc = "done"
                       /\ proc'[p].out.kind = "ok"
                       /\ proc'[p].out.j = routeCache[key]
                       /\ nDispatch' = nDispatch
                       /\ lastTs' = lastTs
                /\ (Calls(p) /\ Len(points) # 2) => proc'[p].pc # "done"
                /\ (Answers(p, proc'[p].resp) /\ IsOk(proc'[p].resp.status)) =>
                       IF Len(points) = 2
                       THEN /\ key \in DOMAIN routeCache'
                            /\ routeCache'[key] = proc'[p].out.j
                       ELSE routeCache' = routeCache
       /\ \A k \in DOMAIN routeCache : k \in DOMAIN routeCache']_vars

\* C15 witness: a call was served from the cache although its first point is
\* spelled differently from the call that filled the cache.
C15_Witness ==
    \E p \in Procs :
        /\ proc[p].pc = "done"
        /\ proc[p].out.kind = "ok"
        /\ proc[p].out.src = "cache"
        /\ proc[p].out.j.route # proc[p].call

\* Both requests have made a two-point call with the same key, both calls went
\* to the routing service (neither found the key in the cache) and both are
\* over.
BothFetchedSameKey ==
    /\ \A p \in Procs : /\ Returned(p)
                        /\ Len(proc[p].call) = 2
    /\ \A p, q \in Procs : CacheKeyOf(proc[p].call) = CacheKeyOf(proc[q].call)

\* C16: two requests that make the same two-point call at the same time with an
\* empty cache cause one duplicate upstream call and nothing else: each request
\* that the service answers with a route gets the route of its own call, a
\* request fails only when the service answers it with an error, and the cache
\* ends with exactly one entry, the one of that key.
C16_ConcurrentSameCall ==
    BothFetchedSameKey =>
        /\ nDispatch = 2 + n429
        /\ \A p \in Procs :
               IF IsOk(proc[p].resp.status)
               THEN proc[p].out = [kind |-> "ok", j |-> RouteOf(proc[p].call), src |-> "net"]
               ELSE proc[p].out.kind = "err" /\ proc[p].out.status = proc[p].resp.status
        /\ (\E p \in Procs : IsOk(proc[p].resp.status)) =>
               \E p \in Procs : DOMAIN routeCache = {CacheKeyOf(proc[p].call)}

\* C16 witness: both requests got a route from the routing service for the same
\* key, spelled differently.
C16_Witness ==
    /\ BothFetchedSameKey
    /\ \A p \in Procs : proc[p].out.kind = "ok"
    /\ \E p, q \in Procs : proc[p].call # proc[q].call

---------------------------------------------------------------------------
(* The stitcher: buildStitchedRoute (lines 287-389) with cleanAnchors,     *)
(* collapseNearDuplicates, sameCoordinate, jitterPoint and                 *)
(* buildCHOnlyRoute.  Points are in 1e-5 degrees and lengths in metres, as *)
(* in the corridor model.  A call of ghRouteCH is taken as one step with   *)
(* its result; the gate behind it is the subject of SpecGate.              *)

\* A coordinate that is not a finite number.
NaN == 999999999

isFiniteNum(n) == n # NaN

\* A value that is not an array of two numbers is written as an array of
\* another length.
isPt(p) == Len(p) = 2 /\ isFiniteNum(p[1]) /\ isFiniteNum(p[2])

sameCoordinate(p, q, meters) == isPt(p) /\ isPt(q) /\ distKm(p, q) <= meters

\* The largest shift of jitterPoint along the longitude and along the latitude,
\* for a radius in metres.
JitterReach(meters) == <<(meters * 100000) \div 111320, (meters * 100000) \div 110540>>

\* The shifts Math.random() can give: none and the largest one in both
\* directions.
Jitter(meters) ==
    { <<0, 0>>, JitterReach(meters), <<-JitterReach(meters)[1], -JitterReach(meters)[2]>> }

\* A jitter ten times as wide.
jitterPoint_Far(p, shift) == <<p[1] + 10 * shift[1], p[2] + 10 * shift[2]>>

jitterPoint(p, shift) == <<p[1] + shift[1], p[2] + shift[2]>>

\* Lines 113-122, from the k-th point on, with out as built so far.
RECURSIVE CollapseFrom(_, _, _, _)
CollapseFrom(points, meters, k, out) ==
    IF k > Len(points) THEN out
    ELSE LET p == points[k]
         IN  IF ~isPt(p) THEN CollapseFrom(points, meters, k + 1, out)
             ELSE IF out = <<>> THEN CollapseFrom(points, meters, k + 1, <<p>>)
             ELSE IF distKm(out[Len(out)], p) < meters
                  THEN CollapseFrom(points, meters, k + 1, out)
             ELSE CollapseFrom(points, meters, k + 1, Append(out, p))

collapseNearDuplicates(points, meters) == CollapseFrom(points, meters, 1, <<>>)

NoSummary == [malformed |-> 0, tooClose |-> 0, kept |-> 0]

\* The distance test of cleanAnchors left out.
TooClose_Never(lastKept, pt, minSegKm) == FALSE

\* Anchors cleaned at the 30 m of collapseNearDuplicates instead of minSegKm.
TooClose_Collapse(lastKept, pt, minSegKm) == lastKept # <<>> /\ distKm(lastKept, pt) < 30

\* Line 134.  lastKept is <<>> while nothing is kept.
TooClose(lastKept, pt, minSegKm) == lastKept # <<>> /\ distKm(lastKept, pt) < minSegKm

\* Lines 131-137, from the k-th raw anchor on.
RECURSIVE CleanFrom(_, _, _, _, _)
CleanFrom(rawAnchors, minSegKm, k, cleaned, summary) ==
    IF k > Len(rawAnchors) THEN [cleaned |-> cleaned, summary |-> summary]
    ELSE LET p == rawAnchors[k]
             lastKept == IF cleaned = <<>> THEN <<>> ELSE cleaned[Len(cleaned)]
         IN  IF ~isPt(p)
             THEN CleanFrom(rawAnchors, minSegKm, k + 1, cleaned,
                            [summary EXCEPT !.malformed = @ + 1])
             ELSE IF TooClose(lastKept, p, minSegKm)
             THEN CleanFrom(rawAnchors, minSegKm, k + 1, cleaned,
                            [summary EXCEPT !.tooClose = @ + 1])
             ELSE CleanFrom(rawAnchors, minSegKm, k + 1, Append(cleaned, p),
                            [summary EXCEPT !.kept = @ + 1])

\* Lines 127-140.
cleanAnchors(rawAnchors, minSegKm) == CleanFrom(rawAnchors, minSegKm, 1, <<>>, NoSummary)

\* Lines 291-297: the first dynMaxTracks tracks that have coordinates.
RECURSIVE TakeTracks(_, _, _)
TakeTracks(ts, n, out) ==
    IF ts = <<>> THEN out
    ELSE IF Len(Head(ts).coords) = 0 THEN TakeTracks(Tail(ts), n, out)
    ELSE IF Len(out) + 1 >= n THEN Append(out, Head(ts))
    ELSE TakeTracks(Tail(ts), n, Append(out, Head(ts)))

JOIN_RADIUS_M == 300

\* In metres.
JOIN_RADIUS_KM == Max2(50, JOIN_RADIUS_M)

\* Lines 442-445.
DynMaxTracks(kmTarget) ==
    IF kmTarget <= 60 THEN 1 ELSE IF kmTarget <= 120 THEN 2
    ELSE IF kmTarget <= 180 THEN 3 ELSE 4

\* Line 447, in metres.
AxisKm(kmTarget) == Max2(4000, Min2(8000, (kmTarget * 1000) \div 25))

\* A loop head that goes back by one instead of on.
NextIdx_Stay(as, from, j) == j - 1

\* Lines 315-323: the first index from j on whose hop from last is routed; one
\* past the end when there is none.
RECURSIVE NextIdx(_, _, _)
NextIdx(as, from, j) ==
    IF j > Len(as) THEN j
    ELSE IF distKm(from, as[j]) < 50 THEN NextIdx(as, from, j + 1)
    ELSE IF Len(collapseNearDuplicates(<<from, as[j]>>, 30)) < 2 THEN NextIdx(as, from, j + 1)
    ELSE j

\* A merge that attaches the track at the cursor wherever the connector ends.
WithinJoinRadius_Always(endPt, first) == TRUE

\* Line 366: distKm(endPt, track.coords[0]) < JOIN_RADIUS_KM.
WithinJoinRadius(endPt, first) == distKm(endPt, first) < JOIN_RADIUS_KM

\* Lines 362-373.
RECURSIVE MergeFrom(_, _, _, _)
MergeFrom(segs, k, selIdx, merged) ==
    IF k > Len(segs) THEN merged
    ELSE LET seg   == segs[k]
             endPt == seg.coords[Len(seg.coords)]
         IN  IF /\ selIdx <= Len(selected)
                /\ WithinJoinRadius(endPt, selected[selIdx].coords[1])
             THEN MergeFrom(segs, k + 1, selIdx + 1,
                            merged \o <<seg, [type |-> "track", id |-> selected[selIdx].id,
                                              coords |-> selected[selIdx].coords]>>)
             ELSE MergeFrom(segs, k + 1, selIdx, Append(merged, seg))

\* A flattening that keeps the first point of every segment.
RECURSIVE Flatten_Whole(_, _, _)
Flatten_Whole(merged, k, coords) ==
    IF k > Len(merged) THEN coords
    ELSE Flatten_Whole(merged, k + 1, coords \o merged[k].coords)

\* Lines 376-383: coords.
RECURSIVE Flatten(_, _, _)
Flatten(merged, k, coords) ==
    IF k > Len(merged) THEN coords
    ELSE Flatten(merged, k + 1, coords \o Tail(merged[k].coords))

\* Lines 377-383: autoAnchors.
RECURSIVE AutoAnchors(_, _)
AutoAnchors(merged, k) ==
    IF k > Len(merged) THEN <<>>
    ELSE IF merged[k].type = "track" /\ Len(merged[k].coords) > 0
         THEN <<merged[k].coords[1]>> \o AutoAnchors(merged, k + 1)
         ELSE AutoAnchors(merged, k + 1)

\* Evidence with an auto_anchors entry in every case.
EvidenceOf_Always(aa) ==
    <<[type |-> "GH_mode", ref |-> "STITCH"], [type |-> "auto_anchors", ref |-> Len(aa)]>>

\* Lines 385-386: the evidence of a stitched route.
EvidenceOf(aa) ==
    <<[type |-> "GH_mode", ref |-> "STITCH"]>>
    \o (IF aa # <<>> THEN <<[type |-> "auto_anchors", ref |-> Len(aa)]>> ELSE <<>>)

\* Lines 361-388: what buildStitchedRoute returns from its connectors.
StitchedOutcome(segs) ==
    LET merged == MergeFrom(segs, 1, 1, <<>>)
        aa     == AutoAnchors(merged, 1)
    IN  [kind |-> "ok",
         coords |-> IF merged = <<>> THEN <<>>
                    ELSE Flatten(merged, 1, <<merged[1].coords[1]>>),
         evidence |-> EvidenceOf(aa),
         autoAnchors |-> aa]

\* A fallback that routes the cleaned anchors instead of the original list.
CHOnlyPoints_Cleaned(p, q, viaPts, shift) == cleanAnchors(<<p>> \o viaPts \o <<q>>, 50).cleaned

\* Lines 275-279: the points buildCHOnlyRoute routes.
CHOnlyPoints(p, q, viaPts, shift) ==
    CHOOSE r \in
        { LET n == Len(points)
          IN  IF n >= 2 /\ sameCoordinate(points[1], points[n], 10)
              THEN [points EXCEPT ![n] = jitterPoint(points[n], shift)]
              ELSE points :
          points \in {collapseNearDuplicates(<<p>> \o viaPts \o <<q>>, 30)} } : TRUE

\* The fallback result with a track attached.
CHOnlyOutcome_WithTrack(coords) ==
    [kind |-> "ok", coords |-> coords, evidence |-> <<[type |-> "GH_mode", ref |-> "CH"]>>,
     autoAnchors |-> <<coords[1]>>]

\* Line 283.
CHOnlyOutcome(coords) ==
    [kind |-> "ok", coords |-> coords, evidence |-> <<[type |-> "GH_mode", ref |-> "CH"]>>,
     autoAnchors |-> <<>>]

---------------------------------------------------------------------------
(* Inputs of the stitcher model *)

\* End points: 21 km from the start; 6 m from it (a loop); 35 m from it.
StitchEnds == { At(20000, 10000), At(5, 3), At(40, 0) }

\* Via values: three points on the way, a point 26 m from the first of them, a
\* point with a coordinate that is not finite, an array of three numbers.
V1 == At(7000, 3500)

V2 == At(14000, 7000)

V3 == At(17000, 8500)

VClose == At(7030, 3500)

\* 39 m from the start, and 35 m from the end of a loop.
VNear == At(45, 0)

VNaN == <<NaN, 3845000>>

VLong == <<1, 2, 3>>

\* The vias of a request: none; well-formed ones, in and against the direction
\* of travel; with a near duplicate; with malformed values; one that is closer
\* to the start than the minimum segment.
ViaLists == { <<>>, <<V1>>, <<V1, V2>>, <<V2, V1>>, <<V1, V2, V3>>, <<V1, VClose>>,
              <<VNaN>>, <<VLong, V1>>, <<V1, VNaN, VClose, V2>>, <<VNear>> }

\* Discovered ways: one that starts 120 m from V1; one that starts 110 m from the
\* far end; one that starts 150 m from V2; a single point 14 km off the axis; a
\* way without geometry.
T1 == [id |-> "t1", coords |-> <<At(7100, 3550), At(8000, 4000)>>]

T2 == [id |-> "t2", coords |-> <<At(19900, 9950), At(19000, 9500)>>]

T3 == [id |-> "t3", coords |-> <<At(14100, 7100), At(15000, 7500), At(16000, 8000)>>]

T4 == [id |-> "t4", coords |-> <<At(5000, 15000)>>]

T5 == [id |-> "t5", coords |-> <<>>]

\* Discovery results, in the order the discovery returned them.
StitchTrackLists == { <<>>, <<T1>>, <<T1, T3>>, <<T3, T1>>, <<T5, T4, T1>>, <<T1, T3, T2>> }

\* kmTarget of the request, in km.
KmTargets == {40, 150}

\* What a ghRouteCH call ends with: an error, a route through the requested
\* points only, or a route with one more point after the first.
CallResults == {"fail", "direct", "bend"}

\* gh.paths[0].points.coordinates of a successful call: it starts at the first
\* and ends at the last requested point.
Route(points, result) ==
    IF result = "direct" \/ Len(points) < 2 THEN points
    ELSE <<points[1], <<points[1][1] + 300, points[1][2] - 200>>>> \o Tail(points)

---------------------------------------------------------------------------
(* buildStitchedRoute, one action per stretch of code between two awaits *)

\* The connector call that routes the remaining chain.
ConnectorPoints_Chain(from, as, j) == <<from>> \o SubSeq(as, j, Len(as))

\* Line 323: the points of the connector call for the pair (from, as[j]).
ConnectorPoints(from, as, j) == collapseNearDuplicates(<<from, as[j]>>, 30)

\* A failed connector call leading to the fallback at once.
AfterConnectorFailure_NoSkip(j, n) == "fallback"

\* Lines 334-351: where a failed connector call leads.
AfterConnectorFailure(j, n) == IF j + 1 <= n THEN "skip" ELSE "fallback"

\* A connector put before the connectors built so far.
PushConnector_Front(segs, segCoords) == <<[type |-> "connector", coords |-> segCoords]>> \o segs

\* Lines 329 and 341: segments.push({ type: 'connector', coords }).
PushConnector(segs, segCoords) == Append(segs, [type |-> "connector", coords |-> segCoords])

\* An anchor-skip call that routes back to the anchor before the one that
\* failed.
SkipTo_Back(j) == j - 1

\* An anchor-skip call that routes to the anchor that just failed.
SkipTo_Same(j) == j

\* Line 336: the index of skipTo, the anchor after the one that could not be
\* reached.
SkipTo(j) == j + 1

\* Lines 274-279: buildCHOnlyRoute is entered and calls ghRouteCH.
EnterFallback ==
    /\ pc' = "fallback"
    /\ \E shift \in Jitter(11) : inFlight' = CHOnlyPoints(a, b, vias, shift)

\* The loop goes on from index j (lines 314-323) and calls ghRouteCH, or ends
\* with the connectors segs (lines 356-388).
Continue(as, j, from, segs) ==
    /\ idx' = NextIdx(as, from, j)
    /\ IF idx' <= Len(as)
       THEN pc' = "connect" /\ inFlight' = ConnectorPoints(from, as, idx') /\ outcome' = outcome
       ELSE IF segs = <<>> THEN EnterFallback /\ outcome' = outcome
       ELSE pc' = "done" /\ inFlight' = <<>> /\ outcome' = StitchedOutcome(segs)

\* The record of a finished call: what was asked, whether it succeeded, and
\* where the stitcher stood when it asked.
CallRecord(kind, result) ==
    [kind |-> kind, points |-> inFlight, ok |-> result # "fail", i |-> idx, from |-> last,
     late |-> overBudget, nseg |-> Len(segments),
     rest |-> IF kind = "fallback" THEN <<>>
              ELSE <<last>> \o SubSeq(anchors, idx, Len(anchors))]

\* Time passes during a call; the budget, once exceeded, stays exceeded.
TimePasses == \E late \in BOOLEAN : overBudget' = (overBudget \/ late)

\* Lines 291-323: selection, cleaning, up to the first call.
StitchBegin ==
    /\ pc = "stitch"
    /\ planPc = "stitch"
    /\ selected' = TakeTracks(tracks, dynMaxTracks, <<>>)
    /\ anchors' = cleanAnchors(<<a>> \o vias \o <<b>>, 50).cleaned
    /\ IF Len(anchors') < 2
       THEN EnterFallback /\ idx' = 0 /\ last' = <<>> /\ outcome' = outcome
       ELSE /\ last' = anchors'[1]
            /\ Continue(anchors', 2, anchors'[1], <<>>)
    /\ UNCHANGED <<a, b, cfg, hint, corr, bbox, tracks, opts>>
    /\ UNCHANGED <<vias, dynMaxTracks, axisKm, segments, ghCalls, overBudget>>
    /\ UNCHANGED handlerVars
    /\ UNCHANGED gateVars

\* Lines 324-351: the connector call of the pair (last, anchors[i]) is over.
Connect(result) ==
    /\ pc = "connect"
    /\ ghCalls' = Append(ghCalls, CallRecord("connector", result))
    /\ IF result # "fail"
       THEN /\ segments' = PushConnector(segments, Route(inFlight, result))
            /\ last' = anchors[idx]
            /\ Continue(anchors, idx + 1, anchors[idx], segments')
       ELSE /\ IF AfterConnectorFailure(idx, Len(anchors)) = "skip"
               THEN /\ pc' = "skip"
                    /\ inFlight' = collapseNearDuplicates(<<last, anchors[SkipTo(idx)]>>, 30)
               ELSE EnterFallback
            /\ UNCHANGED <<segments, last, idx, outcome>>
    /\ TimePasses
    /\ UNCHANGED <<a, b, cfg, hint, corr, bbox, tracks, opts, selected>>
    /\ UNCHANGED <<vias, dynMaxTracks, axisKm, anchors>>
    /\ UNCHANGED handlerVars
    /\ UNCHANGED gateVars

\* Lines 335-349: the call from last to the anchor after next is over.
Skip(result) ==
    /\ pc = "skip"
    /\ ghCalls' = Append(ghCalls, CallRecord("skip", result))
    /\ IF result # "fail"
       THEN /\ segments' = PushConnector(segments, Route(inFlight, result))
            /\ last' = anchors[SkipTo(idx)]
            /\ Continue(anchors, SkipTo(idx) + 1, anchors[SkipTo(idx)], segments')
       ELSE /\ EnterFallback
            /\ UNCHANGED <<segments, last, idx, outcome>>
    /\ TimePasses
    /\ UNCHANGED <<a, b, cfg, hint, corr, bbox, tracks, opts, selected>>
    /\ UNCHANGED <<vias, dynMaxTracks, axisKm, anchors>>
    /\ UNCHANGED handlerVars
    /\ UNCHANGED gateVars

\* Lines 280-283: the call of buildCHOnlyRoute is over.
Fallback(result) ==
    /\ pc = "fallback"
    /\ ghCalls' = Append(ghCalls, CallRecord("fallback", result))
    /\ inFlight' = <<>>
    /\ IF result # "fail"
       THEN pc' = "done" /\ outcome' = CHOnlyOutcome(Route(inFlight, result))
       ELSE pc' = "failed" /\ outcome' = [kind |-> "error"]
    /\ UNCHANGED overBudget
    /\ UNCHANGED <<a, b, cfg, hint, corr, bbox, tracks, opts, selected>>
    /\ UNCHANGED <<vias, dynMaxTracks, axisKm, anchors, idx, last, segments>>
    /\ UNCHANGED handlerVars
    /\ UNCHANGED gateVars

InitStitch ==
    /\ pc = "stitch"
    /\ a = SelStart
    /\ b \in StitchEnds
    /\ vias \in ViaLists
    /\ tracks \in StitchTrackLists
    /\ \E kmTarget \in KmTargets : /\ dynMaxTracks = DynMaxTracks(kmTarget)
                                   /\ axisKm = AxisKm(kmTarget)
    /\ cfg = Cfg(8, 25, 2500)
    /\ hint = NoHint
    /\ corr = NoCorr
    /\ bbox = <<>>
    /\ opts = [max |-> 0, maxAxisKm |-> 0]
    /\ selected = <<>>
    /\ anchors = <<>>
    /\ idx = 0
    /\ last = <<>>
    /\ segments = <<>>
    /\ inFlight = <<>>
    /\ ghCalls = <<>>
    /\ outcome = [kind |-> "none"]
    /\ overBudget = FALSE
    /\ HandlerIdle
    /\ GateIdle

NextStitch ==
    \/ StitchBegin
    \/ \E result \in CallResults : Connect(result)
    \/ \E result \in CallResults : Skip(result)
    \/ \E result \in CallResults : Fallback(result)

SpecStitch == InitStitch /\ [][NextStitch]_vars

\* Lines 78-83: the routing service answers the awaited call with 429 and
\* rlFetch, after its sleep, dispatches the same call again.  The service stops
\* doing so after Max429 answers of that kind.
RateLimited ==
    /\ pc \in {"connect", "skip", "fallback"}
    /\ n429 < Max429
    /\ n429' = n429 + 1
    /\ nDispatch' = nDispatch + 1
    /\ UNCHANGED <<now, lastTs, routeCache, proc, lastGap>>
    /\ UNCHANGED planVars
    /\ UNCHANGED stitchVars

NextStitchLive == NextStitch \/ RateLimited

\* Whether the invocation ends does not depend on the discovered ways: one list
\* of them, every end and every list of vias.
InitStitchLive ==
    /\ InitStitch
    /\ tracks = <<T1, T3, T2>>
    /\ dynMaxTracks = DynMaxTracks(150)

\* Every dispatch gets a response: a step of the stitcher that can be taken is
\* taken in the end.
SpecStitchLive == InitStitchLive /\ [][NextStitchLive]_vars /\ WF_vars(NextStitch)

---------------------------------------------------------------------------
(* POST /plan with strategy 'stitch', from the discovery to the answer *)

\* overpassTracks threw.
OverpassFailed == [ok |-> FALSE, tracks |-> <<>>]

\* What the discovery may end with: a list of ways, or an error.
OverpassResults == {[ok |-> TRUE, tracks |-> ts] : ts \in StitchTrackLists} \cup {OverpassFailed}

\* A handler that goes on with some list after a failed discovery.
TracksOf_Stale(res) == <<T1>>

\* Lines 437-440: the track list the request goes on with.
TracksOf(res) == IF res.ok THEN res.tracks ELSE <<>>

\* An answer without its coordinates.
PlanOk_NoCoords(built, extra) ==
    [kind |-> "ok", coords |-> <<>>, evidence |-> built.evidence \o extra]

\* Lines 455-456, 461-462 and 481-497: the answer with a route, status 200.
PlanOk(built, extra) ==
    [kind |-> "ok", coords |-> built.coords, evidence |-> built.evidence \o extra]

\* Lines 499-503: the answer to an error that is not a validation error.
PlanError == [kind |-> "error", status |-> 500]

\* Lines 437-454: the discovery is over, buildStitchedRoute is called.
Overpass(res) ==
    /\ planPc = "overpass"
    /\ tracks' = TracksOf(res)
    /\ discovery' = IF res.ok THEN "ok" ELSE "failed"
    /\ planPc' = "stitch"
    /\ UNCHANGED <<pc, a, b, cfg, hint, corr, bbox, opts, selected>>
    /\ UNCHANGED <<vias, dynMaxTracks, axisKm, anchors, idx, last, segments, inFlight,
                   ghCalls, outcome, overBudget, planCalls, response>>
    /\ UNCHANGED gateVars

\* Lines 454-457 and 466-497: buildStitchedRoute returned, the handler answers.
PlanStitched ==
    /\ planPc = "stitch"
    /\ pc = "done"
    /\ planPc' = "responded"
    /\ response' = PlanOk(outcome, <<>>)
    /\ UNCHANGED planVars
    /\ UNCHANGED <<vias, dynMaxTracks, axisKm, anchors, idx, last, segments, inFlight,
                   ghCalls, outcome, overBudget, discovery, planCalls>>
    /\ UNCHANGED gateVars

\* Lines 458-460: buildStitchedRoute threw; the handler calls buildCHOnlyRoute,
\* which calls ghRouteCH.
PlanCatch ==
    /\ planPc = "stitch"
    /\ pc = "failed"
    /\ planPc' = "chonly"
    /\ \E shift \in Jitter(11) : inFlight' = CHOnlyPoints(a, b, vias, shift)
    /\ UNCHANGED planVars
    /\ UNCHANGED <<vias, dynMaxTracks, axisKm, anchors, idx, last, segments,
                   ghCalls, outcome, overBudget, discovery, planCalls, response>>
    /\ UNCHANGED gateVars

\* Lines 280-283, 460-463 and 466-503: the call of the handler's buildCHOnlyRoute
\* is over and the handler answers.
PlanCHOnly(result) ==
    /\ planPc = "chonly"
    /\ planCalls' = Append(planCalls, [points |-> inFlight, ok |-> result # "fail"])
    /\ inFlight' = <<>>
    /\ planPc' = "responded"
    /\ response' = IF result # "fail"
                   THEN PlanOk(CHOnlyOutcome(Route(inFlight, result)),
                               <<[type |-> "auto_anchors", ref |-> 0]>>)
                   ELSE PlanError
    /\ UNCHANGED planVars
    /\ UNCHANGED <<vias, dynMaxTracks, axisKm, anchors, idx, last, segments,
                   ghCalls, outcome, overBudget, discovery>>
    /\ UNCHANGED gateVars

InitPlanStitch ==
    /\ pc = "stitch"
    /\ a = SelStart
    /\ b \in StitchEnds
    /\ vias \in ViaLists
    /\ tracks = <<>>
    /\ \E kmTarget \in KmTargets : /\ dynMaxTracks = DynMaxTracks(kmTarget)
                                   /\ axisKm = AxisKm(kmTarget)
    /\ cfg = Cfg(8, 25, 2500)
    /\ hint = NoHint
    /\ corr = NoCorr
    /\ bbox = <<>>
    /\ opts = [max |-> 0, maxAxisKm |-> 0]
    /\ selected = <<>>
    /\ anchors = <<>>
    /\ idx = 0
    /\ last = <<>>
    /\ segments = <<>>
    /\ inFlight = <<>>
    /\ ghCalls = <<>>
    /\ outcome = [kind |-> "none"]
    /\ overBudget = FALSE
    /\ planPc = "overpass"
    /\ discovery = "none"
    /\ planCalls = <<>>
    /\ response = [kind |-> "none"]
    /\ GateIdle

NextPlanStitch ==
    \/ \E res \in OverpassResults : Overpass(res)
    \/ StitchBegin
    \/ \E result \in CallResults : Connect(result)
    \/ \E result \in CallResults : Skip(result)
    \/ \E result \in CallResults : Fallback(result)
    \/ PlanStitched
    \/ PlanCatch
    \/ \E result \in CallResults : PlanCHOnly(result)

SpecPlanStitch == InitPlanStitch /\ [][NextPlanStitch]_vars

---------------------------------------------------------------------------
(* Claims about the stitcher (checked under SpecStitch) *)

\* Selection and cleaning are over.
StitchStarted == pc # "stitch"

\* The axis fraction of a way, in thousandths.
AxisFraction(coords) == project01(MidPoint(coords), a, b)

\* C11: the tracks buildStitchedRoute tries to attach are the track selector's
\* result: at most dynMaxTracks of them, each within axisKm of the axis from
\* start to end, in the order of ascending axis fraction.
C11_SelectedBySelector ==
    StitchStarted =>
        /\ Len(selected) <= dynMaxTracks
        /\ \A i \in 1 .. Len(selected) : LateralOffset(selected[i].coords) <= axisKm
        /\ \A i \in 1 .. Len(selected) - 1 :
               AxisFraction(selected[i].coords) <= AxisFraction(selected[i + 1].coords)

RawAnchors == <<a>> \o vias \o <<b>>

\* xs is ys with some elements left out.
RECURSIVE IsSubseq(_, _)
IsSubseq(xs, ys) ==
    IF xs = <<>> THEN TRUE
    ELSE IF ys = <<>> THEN FALSE
    ELSE IF Head(xs) = Head(ys) THEN IsSubseq(Tail(xs), Tail(ys))
    ELSE IsSubseq(xs, Tail(ys))

WellFormed == { k \in 1 .. Len(RawAnchors) : isPt(RawAnchors[k]) }

\* C17: the cleaned anchors are well-formed points of [start, ...vias, end] in
\* the order given, the first of them is the first well-formed point, any two
\* consecutive ones are at least 50 m apart, and a malformed point raises no
\* error.
C17_CleanedAnchors ==
    StitchStarted =>
        /\ IsSubseq(anchors, RawAnchors)
        /\ \A i \in 1 .. Len(anchors) : isPt(anchors[i])
        /\ WellFormed # {} =>
               /\ anchors # <<>>
               /\ \E k \in WellFormed : /\ \A m \in WellFormed : k <= m
                                        /\ anchors[1] = RawAnchors[k]
        /\ \A i \in 1 .. Len(anchors) - 1 : distKm(anchors[i], anchors[i + 1]) >= 50
        /\ ghCalls = <<>> => outcome.kind = "none"

\* C17 witness: a malformed via and a via 26 m after the one before it were
\* dropped, and the two other vias were kept.
C17_Witness ==
    /\ StitchStarted
    /\ vias = <<V1, VNaN, VClose, V2>>
    /\ anchors = <<a, V1, V2, b>>

\* C18: with fewer than 2 cleaned anchors the stitcher goes straight to the
\* fallback: no connector call is made, the only call is the fallback's, and
\* no track is attached.
C18_TooFewAnchors ==
    (StitchStarted /\ Len(anchors) < 2) =>
        /\ pc \in {"fallback", "done", "failed"}
        /\ segments = <<>>
        /\ Len(ghCalls) <= 1
        /\ \A k \in 1 .. Len(ghCalls) : ghCalls[k].kind = "fallback"
        /\ pc = "done" =>
               /\ outcome.autoAnchors = <<>>
               /\ outcome.evidence = <<[type |-> "GH_mode", ref |-> "CH"]>>

\* C18 witness: a request whose end is 6 m from its start, with a track to
\* attach, has got its route from the fallback.
C18_Witness ==
    /\ pc = "done"
    /\ Len(anchors) < 2
    /\ selected # <<>>

\* Call k of the invocation was a connector call that failed.
FailedConnector(k) == ghCalls[k].kind = "connector" /\ ~ghCalls[k].ok

\* The call that followed call k, or the one awaited when k is the last.
CallAfter(k) ==
    IF k < Len(ghCalls)
    THEN [kind |-> ghCalls[k + 1].kind, points |-> ghCalls[k + 1].points]
    ELSE [kind |-> pc, points |-> inFlight]

NextCall(k) ==
    IF k < Len(ghCalls) THEN ghCalls[k + 1]
    ELSE [kind |-> IF pc = "connect" THEN "connector" ELSE pc, points |-> inFlight,
          i |-> idx, from |-> last, nseg |-> Len(segments)]

\* The invocation ended with what the fallback gave: its route or its error.
EndedWithFallback ==
    /\ ghCalls[Len(ghCalls)].kind = "fallback"
    /\ IF ghCalls[Len(ghCalls)].ok
       THEN /\ pc = "done"
            /\ outcome.evidence = <<[type |-> "GH_mode", ref |-> "CH"]>>
            /\ outcome.coords[1] = ghCalls[Len(ghCalls)].points[1]
       ELSE pc = "failed"

\* C21: after a failed connector call for (last, next) there is exactly one
\* anchor-skip call, from last to the anchor after next (the two points
\* collapsed at 30 m, as for every call); when it succeeds one
\* connector is appended, next is never routed to or from again and the loop
\* goes on with the pair that starts at the skipped-to anchor; when it fails,
\* or when next is the final anchor, the call that follows is the fallback's,
\* no other call follows, and the invocation ends with what the fallback gave.
C21_SkipOnce ==
    \A k \in 1 .. Len(ghCalls) :
        FailedConnector(k) =>
            LET c == ghCalls[k]
                s == NextCall(k)
            IN  IF c.i = Len(anchors)
                THEN /\ s.kind = "fallback"
                     /\ Len(ghCalls) <= k + 1
                     /\ Len(ghCalls) = k + 1 => EndedWithFallback
                ELSE /\ s.kind = "skip"
                     /\ s.points = collapseNearDuplicates(<<c.from, anchors[c.i + 1]>>, 30)
                     /\ k + 1 <= Len(ghCalls) =>
                            IF s.ok
                            THEN /\ \A m \in k + 2 .. Len(ghCalls) :
                                        /\ anchors[c.i] \notin
                                               {ghCalls[m].points[n] : n \in 1 .. Len(ghCalls[m].points)}
                                           \/ ghCalls[m].kind = "fallback"
                                        /\ ghCalls[m].kind = "skip" => ghCalls[m].i > c.i + 1
                                 /\ IF c.i + 1 = Len(anchors)
                                    THEN /\ pc = "done"
                                         /\ Len(ghCalls) = k + 1
                                         /\ Len(segments) = s.nseg + 1
                                         /\ outcome.evidence[1].ref = "STITCH"
                                    ELSE /\ NextCall(k + 1).kind = "connector"
                                         /\ NextCall(k + 1).nseg = s.nseg + 1
                                         /\ NextCall(k + 1).points =
                                                <<anchors[c.i + 1], anchors[c.i + 2]>>
                            ELSE /\ NextCall(k + 1).kind = "fallback"
                                 /\ Len(ghCalls) <= k + 2
                                 /\ Len(ghCalls) = k + 2 => EndedWithFallback

\* C21 witness: with four anchors the connector to the first via failed, the
\* anchor-skip call to the second via succeeded, and the stitched route came
\* from it and the connector from the second via to the end.
C21_Witness ==
    /\ pc = "done"
    /\ Len(anchors) = 4
    /\ Len(ghCalls) = 3
    /\ FailedConnector(1)
    /\ ghCalls[2].kind = "skip" /\ ghCalls[2].ok
    /\ ghCalls[3].kind = "connector" /\ ghCalls[3].ok
    /\ Len(segments) = 2

\* buildStitchedRoute returned a route merged from its connectors.
Stitched == pc = "done" /\ outcome.evidence[1].ref = "STITCH"

\* The merged segments of the invocation.
Merged == MergeFrom(segments, 1, 1, <<>>)

IsConnector(seg) == seg.type = "connector"

\* The number of track segments before position k of the merged list m.
TracksBefore(m, k) == Cardinality({j \in 1 .. k - 1 : m[j].type = "track"})

LastOf(coords) == coords[Len(coords)]

\* C22: in the merged list the connectors are the connectors built, in order;
\* a track segment stands only directly after a connector whose last coordinate
\* is within the join radius of the track's first coordinate, and it is the
\* track at the cursor: the n-th track segment is the n-th selected track; a
\* connector that no track follows has no track at the cursor, or one whose
\* first coordinate is not within the join radius; so at most one track
\* follows a connector and each track is attached at most once.
C22_MergeAtCursor ==
    Stitched =>
        LET m == Merged
        IN  /\ SelectSeq(m, IsConnector) = segments
            /\ \A k \in 1 .. Len(m) :
                   IF m[k].type = "track"
                   THEN /\ k > 1
                        /\ m[k - 1].type = "connector"
                        /\ TracksBefore(m, k) + 1 <= Len(selected)
                        /\ m[k].id = selected[TracksBefore(m, k) + 1].id
                        /\ m[k].coords = selected[TracksBefore(m, k) + 1].coords
                        /\ distKm(LastOf(m[k - 1].coords), m[k].coords[1]) < JOIN_RADIUS_KM
                   ELSE (k = Len(m) \/ m[k + 1].type = "connector") =>
                            \/ TracksBefore(m, k) + 1 > Len(selected)
                            \/ distKm(LastOf(m[k].coords),
                                      selected[TracksBefore(m, k) + 1].coords[1])
                                   >= JOIN_RADIUS_KM
            /\ Len(outcome.autoAnchors) = TracksBefore(m, Len(m) + 1)
            /\ \A n \in 1 .. Len(outcome.autoAnchors) :
                   outcome.autoAnchors[n] = selected[n].coords[1]

\* C22 witness: of three connectors the first two got the first two selected
\* tracks attached and the third got none, though a track was left.
C22_Witness ==
    /\ Stitched
    /\ Len(segments) = 3
    /\ Len(selected) = 3
    /\ Len(outcome.autoAnchors) = 2
    /\ Merged[2].type = "track"
    /\ Merged[4].type = "track"
    /\ Len(Merged) = 5

\* The flattened output after the first k merged segments.
OutputUpTo(m, k) == Flatten(SubSeq(m, 1, k), 1, <<m[1].coords[1]>>)

PointsOf(coords) == {coords[n] : n \in 1 .. Len(coords)}

\* C23: the flattened output of a stitched route loses no coordinate of a
\* merged segment: the first point of each segment after the first, which is
\* left out when the segment is concatenated, equals the last point already in
\* the output, and every coordinate of every connector and track is in the
\* returned sequence.
C23_OnlyDuplicatesDropped ==
    Stitched =>
        LET m == Merged
        IN  /\ \A k \in 2 .. Len(m) : m[k].coords[1] = LastOf(OutputUpTo(m, k - 1))
            /\ \A k \in 1 .. Len(m) : PointsOf(m[k].coords) \subseteq PointsOf(outcome.coords)

\* q is p moved by no more than the loop jitter of 11 m in each direction.
WithinJitter(p, q) ==
    /\ Abs(p[1] - q[1]) <= JitterReach(11)[1]
    /\ Abs(p[2] - q[2]) <= JitterReach(11)[2]

\* C24: with routing results that start at the first and end at the last
\* requested point, the coordinate sequence buildStitchedRoute returns starts
\* at the request's start and ends at the request's end, up to the loop jitter.
C24_StartToEnd ==
    pc = "done" =>
        /\ outcome.coords[1] = a
        /\ WithinJitter(b, LastOf(outcome.coords))

FallbackCalls == {k \in 1 .. Len(ghCalls) : ghCalls[k].kind = "fallback"}

GHModes(evidence) == {n \in 1 .. Len(evidence) : evidence[n].type = "GH_mode"}

\* C25 as claimed: the fallback's call carries the full original list
\* [start, ...vias, end].
C25_Original == \A k \in FallbackCalls : ghCalls[k].points = RawAnchors

\* The points of a fallback call are the original list [start, ...vias, end]
\* without its malformed values and without the points closer than 30 m to the
\* point kept before them, the last point moved by the loop jitter when it is
\* within 10 m of the first.
CollapsedOriginal(pts) ==
    LET n    == Len(pts)
        jit  == pts[n] \notin PointsOf(RawAnchors)
        kept == IF jit THEN [pts EXCEPT ![n] = b] ELSE pts
    IN  /\ n >= 1
        /\ pts[1] = a
        /\ jit => n >= 2 /\ WithinJitter(b, pts[n]) /\ sameCoordinate(a, b, 10)
        /\ IsSubseq(kept, RawAnchors)
        /\ \A i \in 1 .. n : isPt(pts[i])
        /\ \A i \in 1 .. n - 1 : distKm(kept[i], kept[i + 1]) >= 30
        /\ \A r \in WellFormed :
               \E i \in 1 .. n : kept[i] = RawAnchors[r] \/ distKm(kept[i], RawAnchors[r]) < 30

\* C25 as amended: the fallback makes one routing call, built from the
\* original list [start, ...vias, end] and not from the cleaned anchors, with
\* near duplicates of 30 m collapsed and a loop's end jittered; its outcome has
\* the evidence GH_mode = CH alone and no auto anchor; GH_mode = STITCH is on
\* outcomes merged from connectors only, which made no fallback call; every
\* outcome has exactly one GH_mode entry.
C25_Fallback ==
    /\ Cardinality(FallbackCalls) <= 1
    /\ \A k \in FallbackCalls :
           /\ k = Len(ghCalls)
           /\ CollapsedOriginal(ghCalls[k].points)
           /\ ghCalls[k].ok =>
                  /\ pc = "done"
                  /\ outcome.evidence = <<[type |-> "GH_mode", ref |-> "CH"]>>
                  /\ outcome.autoAnchors = <<>>
                  /\ outcome.coords[1] = ghCalls[k].points[1]
                  /\ LastOf(outcome.coords) = LastOf(ghCalls[k].points)
    /\ pc = "fallback" => CollapsedOriginal(inFlight)
    /\ pc = "done" =>
           /\ Cardinality(GHModes(outcome.evidence)) = 1
           /\ Stitched <=> FallbackCalls = {}
           /\ Stitched => segments # <<>>

\* C25 witness: after a failed connector and a failed anchor-skip call the
\* fallback routed the original list, in which a via 26 m after another one
\* was collapsed, and returned its route.
C25_Witness ==
    /\ pc = "done"
    /\ vias = <<V1, VNaN, VClose, V2>>
    /\ Len(ghCalls) = 3
    /\ ghCalls[3].kind = "fallback"
    /\ ghCalls[3].points = <<a, V1, V2, b>>
    /\ selected # <<>>

\* C28: when the discovery found no track, the stitcher takes the fallback
\* path: a route it returns is the fallback's, with the evidence GH_mode = CH,
\* and not a stitched one.
C28_EmptyDiscoveryFallsBack ==
    (pc = "done" /\ tracks = <<>>) =>
        /\ FallbackCalls # {}
        /\ outcome.evidence = <<[type |-> "GH_mode", ref |-> "CH"]>>

\* The request has no vias, no track was discovered, and its end is at least
\* the minimum segment of 50 m from its start.
PlainRequest == vias = <<>> /\ tracks = <<>> /\ distKm(a, b) >= 50

\* C29: for a request without vias and without discovered tracks whose end is
\* at least 50 m from its start, the returned coordinates are those of the
\* direct route from start to end: the successful call was the two-point call
\* (start, end), and the coordinates are its result, nothing added or removed,
\* be it the single connector of a stitched route or the fallback's route.
C29_PlainIsDirect ==
    (PlainRequest /\ pc = "done") =>
        /\ ghCalls[Len(ghCalls)].ok
        /\ ghCalls[Len(ghCalls)].points = <<a, b>>
        /\ \A k \in 1 .. Len(ghCalls) - 1 : ~ghCalls[k].ok
        /\ outcome.coords \in {Route(<<a, b>>, r) : r \in CallResults \ {"fail"}}
        /\ outcome.autoAnchors = <<>>
        /\ Stitched => Len(segments) = 1 /\ outcome.coords = segments[1].coords

\* C29 witness: the single connector of such a request came back with a point
\* between start and end, and the stitched route has these three points.
C29_Witness ==
    /\ PlainRequest
    /\ Stitched
    /\ Len(ghCalls) = 1
    /\ Len(outcome.coords) = 3

---------------------------------------------------------------------------
(* Claims about the stitch-strategy request (checked under SpecPlanStitch) *)

Responded == planPc = "responded"

\* The fallback calls of the request that are over: those of buildStitchedRoute
\* and those of the handler's own buildCHOnlyRoute.
FallbackResults ==
    [k \in 1 .. Cardinality(FallbackCalls) + Len(planCalls) |->
        IF k <= Cardinality(FallbackCalls) THEN ghCalls[Len(ghCalls)].ok
        ELSE planCalls[k - Cardinality(FallbackCalls)].ok]

\* C26: the fallback's routing call is made once per request; when it fails
\* no other call is made and the request ends with an error.
C26_FallbackOnce ==
    /\ Len(FallbackResults) <= 1
    /\ pc = "failed" =>
           /\ planPc \in {"stitch", "responded"}
           /\ Responded => response.kind = "error"

\* C27: a failed connector or anchor-skip call is not surfaced: the request
\* ends with an error only when a fallback call was made and every fallback
\* call of the request failed, the last call of the request among them; in
\* every other case it ends with a sequence of coordinates, that of the
\* stitched route or of the fallback.
C27_ConnectorFailureNotSurfaced ==
    Responded =>
        IF response.kind = "error"
        THEN /\ FallbackResults # <<>>
             /\ \A k \in 1 .. Len(FallbackResults) : ~FallbackResults[k]
             /\ planCalls # <<>>
        ELSE /\ response.kind = "ok"
             /\ Len(response.coords) >= 1
             /\ response.coords[1] = a
             /\ (FallbackResults = <<>> \/ FallbackResults[Len(FallbackResults)])
             /\ FallbackResults = <<>> => response.coords = outcome.coords

\* C27 witness: a connector call and the anchor-skip call after it failed, the
\* fallback succeeded, and the request was answered with its route.
C27_Witness ==
    /\ Responded
    /\ response.kind = "ok"
    /\ Len(ghCalls) = 3
    /\ FailedConnector(1)
    /\ ghCalls[2].kind = "skip" /\ ~ghCalls[2].ok
    /\ Len(response.coords) >= 2

\* C30: a failed discovery does not end the request: the request goes on with
\* an empty track list, attaches no track, and is answered with a route, or
\* with an error only after its fallback calls failed.
C30_DiscoveryFailureTolerated ==
    discovery = "failed" =>
        /\ planPc # "overpass"
        /\ tracks = <<>>
        /\ selected = <<>>
        /\ Responded =>
               IF response.kind = "ok"
               THEN /\ Len(response.coords) >= 1
                    /\ \A n \in 1 .. Len(response.evidence) :
                           response.evidence[n].type = "auto_anchors" =>
                               response.evidence[n].ref = 0
               ELSE planCalls # <<>> /\ ~planCalls[Len(planCalls)].ok

\* C30 witness: after a failed discovery a request with four anchors was
\* answered with a route stitched from three connectors.
C30_Witness ==
    /\ discovery = "failed"
    /\ Responded
    /\ response.kind = "ok"
    /\ response.evidence = <<[type |-> "GH_mode", ref |-> "STITCH"]>>
    /\ Len(segments) = 3

---------------------------------------------------------------------------
(* Further claims about the stitcher (checked under SpecStitch) *)

\* The connector and anchor-skip calls of the invocation that are over.
PairCalls == {k \in 1 .. Len(ghCalls) : ghCalls[k].kind \in {"connector", "skip"}}

\* The first point of the first segment, then every segment without its first
\* point, in the order of the list.
RECURSIVE ConcatTails(_)
ConcatTails(m) ==
    IF Len(m) = 1 THEN m[1].coords
    ELSE ConcatTails(SubSeq(m, 1, Len(m) - 1)) \o Tail(m[Len(m)].coords)

\* C31: the pairs are processed in anchor order, one call at a time: a call is
\* awaited exactly while the stitcher stands at a call, the anchor index of the
\* calls never decreases and increases from every call to the next but for the
\* anchor-skip call that follows a failed connector, every call starts where
\* the successful call before it ended, the n-th connector built is the result
\* of the n-th successful call, and the returned sequence is the merged
\* segments one after the other in that order.
C31_InOrder ==
    /\ (inFlight # <<>>) <=> (pc \in {"connect", "skip", "fallback"})
    /\ \A k \in PairCalls :
           LET c == ghCalls[k]
           IN  /\ c.nseg = Cardinality({m \in PairCalls : m < k /\ ghCalls[m].ok})
               /\ c.ok =>
                      /\ Len(segments) > c.nseg
                      /\ segments[c.nseg + 1].coords[1] = c.points[1]
                      /\ LastOf(segments[c.nseg + 1].coords) = LastOf(c.points)
               /\ c.points[1] = IF c.nseg = 0 THEN anchors[1]
                                ELSE LastOf(segments[c.nseg].coords)
               /\ \A m \in PairCalls :
                      m < k => IF ghCalls[m].kind = "connector" /\ ~ghCalls[m].ok /\ m + 1 = k
                               THEN ghCalls[m].i = c.i /\ c.kind = "skip"
                               ELSE ghCalls[m].i < c.i
    /\ Stitched => outcome.coords = ConcatTails(Merged)

\* C31 witness: three connectors were built one after the other and the
\* stitched route runs through them and two attached tracks in that order.
C31_Witness ==
    /\ Stitched
    /\ Len(ghCalls) = 3
    /\ \A k \in 1 .. 3 : ghCalls[k].ok /\ ghCalls[k].nseg = k - 1
    /\ Len(Merged) = 5
    /\ Len(outcome.coords) > 6

\* No call of the invocation has failed: no failure recovery was needed.
NoFailure == \A k \in 1 .. Len(ghCalls) : ghCalls[k].ok

\* What the fallback routes when the random number drawn is 0.5 (no shift).
UnshiftedFallback == CHOnlyPoints(a, b, vias, <<0, 0>>)

SameButLoopEnd(kind, pts) ==
    IF kind = "fallback"
    THEN /\ Len(pts) = Len(UnshiftedFallback)
         /\ \A n \in 1 .. Len(pts) - 1 : pts[n] = UnshiftedFallback[n]
         /\ \/ LastOf(pts) = LastOf(UnshiftedFallback)
            \/ /\ Len(pts) >= 2
               /\ sameCoordinate(pts[1], b, 10)
               /\ WithinJitter(b, LastOf(pts))
    ELSE PointsOf(pts) \subseteq PointsOf(anchors)

AttachedTracks == {k \in 1 .. Len(Merged) : Merged[k].type = "track"}

AutoAnchorEntries == {n \in 1 .. Len(outcome.evidence) : outcome.evidence[n].type = "auto_anchors"}

TargetOf(c) == IF c.kind = "skip" THEN anchors[c.i + 1] ELSE anchors[c.i]

\* C34: no connector call and no anchor-skip call is made for two points that
\* are closer than 50 m.
C34_NoTinyCall ==
    /\ \A k \in PairCalls : distKm(ghCalls[k].from, TargetOf(ghCalls[k])) >= 50
    /\ pc = "connect" => distKm(last, anchors[idx]) >= 50
    /\ pc = "skip" => distKm(last, anchors[idx + 1]) >= 50

\* C35: every call made to the routing service, by the connector loop, by the
\* anchor-skip recovery or by the fallback, carries at least 2 points.
C35_AtLeastTwoPoints ==
    /\ \A k \in 1 .. Len(ghCalls) : Len(ghCalls[k].points) >= 2
    /\ pc \in {"connect", "skip", "fallback"} => Len(inFlight) >= 2

---------------------------------------------------------------------------
(* Further claims about the track selector (checked under SpecSelect) *)

\* The discovered ways that pass the filters of lines 801-809.
Candidates ==
    {i \in 1 .. Len(tracks) :
        Len(tracks[i].coords) > 0 /\ LateralOffset(tracks[i].coords) <= opts.maxAxisKm}

\* C36: any two candidates the track selector returns differ in axis fraction
\* by at least 0.1.
C36_MinGap ==
    SelectDone =>
        \A i, j \in 1 .. Len(selected) :
            i # j => Abs(selected[i].t - selected[j].t) >= 100

\* C36 witness: of three discovered ways two were returned, and the third, less
\* than 0.1 of the axis from a longer one, was not.
C36_Witness ==
    /\ SelectDone
    /\ Len(tracks) = 3
    /\ Len(selected) = 2
    /\ opts.max = 6
    /\ \E i \in Candidates :
           /\ \A n \in 1 .. 2 : selected[n].id # tracks[i].id
           /\ \E n \in 1 .. 2 :
                  /\ Abs(selected[n].t - AxisFraction(tracks[i].coords)) < 100
                  /\ selected[n].len > polylineLenKm(tracks[i].coords)

\* Way j is considered before way i: it is longer, or as long and discovered
\* earlier.
Before(j, i) ==
    \/ polylineLenKm(tracks[j].coords) > polylineLenKm(tracks[i].coords)
    \/ polylineLenKm(tracks[j].coords) = polylineLenKm(tracks[i].coords) /\ j < i

Accepted(i) == \E n \in 1 .. Len(selected) : selected[n].id = tracks[i].id

---------------------------------------------------------------------------
(* Termination of the stitcher (checked under SpecStitchLive) *)

\* The invocation returned a coordinate sequence, or threw the error of the
\* fallback's call.
StitchEnded ==
    \/ pc = "done" /\ outcome.kind = "ok" /\ Len(outcome.coords) >= 1
    \/ /\ pc = "failed"
       /\ outcome.kind = "error"
       /\ ghCalls # <<>>
       /\ LastOf(ghCalls).kind = "fallback"
       /\ ~LastOf(ghCalls).ok

\* One step of the connecting loop: the index never goes back, and it has grown
\* whenever a call is over and the loop starts its next iteration or ends.
LoopAdvances ==
    /\ idx' >= idx
    /\ (pc \in {"connect", "skip"} /\ pc' \in {"connect", "done"} /\ ghCalls' # ghCalls)
           => idx' > idx

\* C38: every invocation of buildStitchedRoute ends, with a coordinate sequence
\* or with the routing error of the fallback, when every dispatch is answered
\* and the rate-limit answers stop; each iteration of the connecting loop
\* raises the anchor index.
C38_Terminates == <>StitchEnded /\ [][LoopAdvances]_vars

\* C38 witness: an invocation that was rate limited, made three connector calls
\* and a skip call, and returned.
C38_Witness ==
    /\ StitchEnded
    /\ n429 = Max429
    /\ Len(anchors) >= 4
    /\ \E k \in 1 .. Len(ghCalls) : ghCalls[k].kind = "skip" /\ ghCalls[k].ok
    /\ Len(ghCalls) >= 3
    /\ pc = "done"

---------------------------------------------------------------------------
(* Further claims about the stitcher's calls (checked under SpecStitch) *)

\* The ghRouteCH calls the invocation has made: those that are over and the one
\* that is awaited.
CallsMade == Len(ghCalls) + (IF pc \in {"connect", "skip", "fallback"} THEN 1 ELSE 0)

\* C39: with n >= 2 cleaned anchors an invocation makes at most n calls of
\* ghRouteCH, connector, skip and fallback calls together; with fewer than 2
\* cleaned anchors it makes exactly one.
C39_AtMostNCalls ==
    pc # "stitch" =>
        /\ Len(anchors) >= 2 => CallsMade <= Len(anchors)
        /\ Len(anchors) < 2 => CallsMade = 1

\* C39 witness: an invocation with four cleaned anchors that ended after four
\* calls, a skip call and the fallback call among them.
C39_Witness ==
    /\ pc \in {"done", "failed"}
    /\ Len(anchors) = 4
    /\ Len(ghCalls) = 4
    /\ \E k \in 1 .. 4 : ghCalls[k].kind = "skip"
    /\ ghCalls[4].kind = "fallback"

\* The calls of the connecting loop that succeeded: each of them built one
\* connector.
BuiltCalls == {k \in PairCalls : ghCalls[k].ok}

\* C40: when buildStitchedRoute reaches the merge there is a connector, the
\* first connector starts at the first cleaned anchor and the last connector
\* was routed to the final cleaned anchor; every pair (last, next) the loop
\* visits is the anchor before next and next, 50 m apart or more, so that no
\* index is passed over as a tiny hop; and the fallback is entered with two or
\* more cleaned anchors only after a call that failed, never for want of
\* connectors.
C40_MergingHasEnds ==
    /\ Stitched =>
           /\ segments # <<>>
           /\ Len(segments) = Cardinality(BuiltCalls)
           /\ segments[1].coords[1] = anchors[1]
           /\ \E k \in BuiltCalls :
                  /\ \A j \in BuiltCalls : j <= k
                  /\ TargetOf(ghCalls[k]) = anchors[Len(anchors)]
                  /\ Len(ghCalls[k].points) >= 2
                         => LastOf(LastOf(segments).coords) = anchors[Len(anchors)]
    /\ \A k \in 1 .. Len(ghCalls) :
           ghCalls[k].kind = "connector" =>
               /\ ghCalls[k].from = anchors[ghCalls[k].i - 1]
               /\ distKm(ghCalls[k].from, anchors[ghCalls[k].i]) >= 50
    /\ pc = "connect" => last = anchors[idx - 1] /\ distKm(last, anchors[idx]) >= 50
    /\ \A k \in 1 .. Len(ghCalls) :
           (ghCalls[k].kind = "fallback" /\ Len(anchors) >= 2) =>
               k > 1 /\ ~ghCalls[k - 1].ok
    /\ (pc = "fallback" /\ Len(anchors) >= 2) =>
           ghCalls # <<>> /\ ~LastOf(ghCalls).ok

\* C40 witness: a merge reached after the recovery dropped a middle anchor, with
\* two connectors, the first from the first and the second to the final of four
\* cleaned anchors.
C40_Witness ==
    /\ Stitched
    /\ Len(anchors) = 4
    /\ Len(segments) = 2
    /\ Len(ghCalls) = 3
    /\ ~ghCalls[1].ok
    /\ ghCalls[2].kind = "skip"
    /\ ghCalls[3].kind = "connector"
    /\ segments[1].coords[1] = anchors[1]
    /\ LastOf(segments[2].coords) = anchors[4]

=============================================================================
